---------------------------- MODULE Spec2Model ----------------------------
(***************************************************************************)
(* The interrupt remapping table of ostd (arch/x86/iommu/                  *)
(* interrupt_remapping/table.rs): the index allocator, the three-write     *)
(* set_entry protocol read by asynchronous hardware, the table-register    *)
(* encoding and the 128-bit entry codec; and the x2APIC local controller   *)
(* (arch/x86/kernel/apic/x2apic.rs): new, enable and send_ipi over         *)
(* model-specific registers that hardware changes asynchronously.          *)
(*                                                                         *)
(* Machine words are sets of bit positions: a u64 is a subset of 0..63, a  *)
(* u128 a subset of 0..127.  `|` is \cup, `&` is \cap, shifts move the     *)
(* positions, `as uN` keeps the positions below N.                         *)
(***************************************************************************)
EXTENDS Integers, Sequences, FiniteSets, TLC

\* ------------------------------------------------------------------ bounds

\* CPUs that call into the table concurrently.
NumCpus == 2
\* Interrupt handlers that call into the table.
NumHandlers == 1
\* Handles with an index below ReleaseWindow may be released again.
ReleaseWindow == 2
\* Page counts a table is constructed with when encode() is examined.
MaxPages == 257
\* Vectors given to new_enabled: 0..MaxVector.
MaxVector == 255
\* The rdmsr/wrmsr of one call that msr_log keeps (its first MaxLog accesses).
MaxLog == 6
\* Indices still free in the table that alloc and set_entry share.
FreeAtStart == 2

\* --------------------------------------------------------------- constants

\* table.rs:46  const NUM_PAGES: usize = 1;
NUM_PAGES == 1
\* mm::PAGE_SIZE, 4096 bytes (one page holds 256 entries).
PAGE_SIZE == 4096
\* size_of::<u128>() and size_of::<u64>()
SizeOfU128 == 16
SizeOfU64 == 8
\* u16::MAX, the largest num_entries
U16Max == 65535

\* x2apic.rs:39, 41  IA32_APIC_BASE's EN and EXTD bits
EN_BIT_IDX == 11
EXTD_BIT_IDX == 10
\* x2apic.rs:120  the delivery-status bit of the ICR, (icr >> 12) & 0x1
DeliveryStatusBit == 12

CPUS == 1..NumCpus
NoCpu == 0
\* The interrupt handlers, and the contexts that call into the table: the task
\* of each CPU and the handlers.
Handlers == (NumCpus + 1)..(NumCpus + NumHandlers)
Contexts == CPUS \cup Handlers
\* No id: what Option::None of an index is modelled as.
NoId == -1
\* No word or entry: no machine word has bit 128.
NoWord == {128}

\* ------------------------------------------------------------------- words

Pow2(n) == 2 ^ n

\* The bits of a number below 2^31.
BitsOf(n) == {i \in 0..30 : (n \div Pow2(i)) % 2 = 1}

RECURSIVE ValueOf(_)
\* The number a set of bit positions below 31 stands for.
ValueOf(bits) ==
    IF bits = {} THEN 0
    ELSE LET b == CHOOSE x \in bits : TRUE
         IN Pow2(b) + ValueOf(bits \ {b})

Shl(x, k, width) == {b + k : b \in x} \cap (0..(width - 1))
Shr(x, k) == {b - k : b \in {c \in x : c >= k}}
Mask(lo, hi) == lo..hi
Trunc(x, width) == x \cap (0..(width - 1))

Zero == {}

\* ------------------------------------------------------------------- entry

\* new_enabled shifting the vector by 8 instead of 16.
new_enabled_shift8(vector) == {0, 1} \cup Shl(BitsOf(vector), 8, 128)

\* IrtEntry::new_enabled: Self(0b11 | ((vector as u128) << 16))
new_enabled(vector) == {0, 1} \cup Shl(BitsOf(vector), 16, 128)

\* as_raw_u64 with the two halves in the other order.
as_raw_u64_swapped(e) == << Trunc(Shr(e, 64), 64), Trunc(e, 64) >>

\* IrtEntry::as_raw_u64: [self.0 as u64, (self.0 >> 64) as u64]
as_raw_u64(e) == << Trunc(e, 64), Trunc(Shr(e, 64), 64) >>

\* #[derive(TryFromInt)] on SourceValidationType
SourceValidationType_try_from(n) ==
    CASE n = 0 -> "Disable"
      [] n = 1 -> "RequesterId"
      [] n = 2 -> "RequesterBus"
      [] n = 3 -> "Reserved"
      [] OTHER -> "Err"

\* #[derive(TryFromInt)] on SourceIdQualifier
SourceIdQualifier_try_from(n) ==
    CASE n = 0 -> "All"
      [] n = 1 -> "IgnoreThirdLeast"
      [] n = 2 -> "IgnoreSecondThirdLeast"
      [] n = 3 -> "IgnoreLeastThree"
      [] OTHER -> "Err"

\* source_validation_type with a three-bit mask, 0x7 << 82.
source_validation_type_mask3(e) ==
    SourceValidationType_try_from(ValueOf(Trunc(Shr(e \cap Mask(82, 84), 82), 32)))

\* const SVT_MASK: u128 = 0x3 << 82; try_from(((self.0 & SVT_MASK) >> 82) as u32)
source_validation_type(e) ==
    SourceValidationType_try_from(ValueOf(Trunc(Shr(e \cap Mask(82, 83), 82), 32)))

\* const SQ_MASK: u128 = 0x3 << 82; try_from(((self.0 & SQ_MASK) >> 82) as u32)
source_id_qualifier(e) ==
    SourceIdQualifier_try_from(ValueOf(Trunc(Shr(e \cap Mask(82, 83), 82), 32)))

\* source_identifier reading the top of the lower half, 0xFFFF << 48.
source_identifier_low(e) == Trunc(Shr(e \cap Mask(48, 63), 48), 32)

\* const SID_MASK: u128 = 0xFFFF << 64; ((self.0 & SID_MASK) >> 64) as u32
source_identifier(e) == Trunc(Shr(e \cap Mask(64, 79), 64), 32)

\* const DST_MASK: u128 = 0xFFFF_FFFF << 32; ((self.0 & DST_MASK) >> 32) as u32
destination_id(e) == Trunc(Shr(e \cap Mask(32, 63), 32), 32)

\* const VECTOR_MASK: u128 = 0xFF << 16; ((self.0 & VECTOR_MASK) >> 16) as u8
vector(e) == ValueOf(Trunc(Shr(e \cap Mask(16, 23), 16), 8))

\* IrtEntryFlags: P, FPD, DM, RH, TM, IM at bits 0, 1, 2, 3, 4, 15
FlagP == 0
FlagFPD == 1
FlagDM == 2
FlagRH == 3
FlagTM == 4
FlagIM == 15
IrtEntryFlagsAll == {0, 1, 2, 3, 4, 15}

\* flags() keeping every bit of the low 32 (from_bits_retain).
flags_untruncated(e) == Trunc(e \cap Mask(0, 31), 32)

\* IrtEntryFlags::from_bits_truncate((self.0 & 0xFFFF_FFFF) as u32)
flags(e) == Trunc(e \cap Mask(0, 31), 32) \cap IrtEntryFlagsAll

\* ------------------------------------------------------------------- state

VARIABLES
    num_entries,              \* IntRemappingTable.num_entries
    extended_interrupt_mode,  \* IntRemappingTable.extended_interrupt_mode
    seg_paddr,                \* segment.start_paddr(), a u64
    seg_bytes,                \* the segment's size in bytes
    mem,                      \* the segment's nonzero 64-bit words, by byte offset
    modification_lock,        \* holder of modification_lock, or NoCpu
    allocator_lock,           \* holder of allocator, or NoCpu
    used,                     \* the ids IdAlloc has marked allocated
    capacity,                 \* IdAlloc's capacity
    tstate,                   \* "built", or "new_panicked" / "encode_panicked"
    pc,                       \* each CPU's position
    call,                     \* each CPU's arguments and locals
    writes,                   \* the write_once calls of each CPU's current set_entry
    armed,                    \* per slot: the entry whose lower half write 3 stored last
    settled,                  \* per slot: the entry of the last returned set_entry
    hw,                       \* what the remapping hardware read last
    held,                     \* the live handles: index :> how many have it
    fresh_allocs,             \* successful allocs since construction; -1 after a release
    pages_in,                 \* the page count the table is constructed with
    encoded,                  \* what encode() returned last
    vector_in,                \* the vector given to new_enabled
    entry,                    \* the IrtEntry built last
    fields,                   \* the field values an entry is laid out from
    decoded,                  \* what the accessors returned for entry
    x2apic_supported,         \* has_extensions(IsaExtensions::X2APIC)
    apic,                     \* what X2Apic::new returned: "None" or "Some"
    msr,                      \* the model-specific registers of the core
    msr_log,                  \* the first rdmsr/wrmsr of the current call
    apic_pc,                  \* the core's position in enable or send_ipi
    apic_call,                \* arguments and locals of the core's call
    poll,                     \* what the poll loop's current iteration read
    irq_enabled,              \* the core's local interrupts are enabled
    enabled_msr,              \* the registers when enable returned last
    irq_on,                   \* per core: its local interrupts are enabled
    irq_was,                  \* per context: what its lock guard restores
    handler_of,               \* per handler: the CPU it interrupts, or NoCpu
    irq_ran,                  \* where in enable or send_ipi a handler has run
    flock_pc,                 \* the position of the sys_flock call
    flock_args,               \* sys_flock's fd (whether it names an inode file) and ops
    flock_ops,                \* the FlockOps from_i32 returned, or NoWord
    flock_done,               \* what sys_flock called on the inode file
    flock_ret,                \* what sys_flock returned
    ctrl_pc,                  \* the position of the from_control call
    ctrl_msgs,                \* from_control's argument: the files of each message
    ctrl_privileged,          \* euid is root or the capset has SYS_ADMIN
    ctrl_next,                \* the message the loop of from_control takes next
    files,                    \* from_control's local `files`
    ctrl_ret                  \* what from_control returned

vars == << num_entries, extended_interrupt_mode, seg_paddr, seg_bytes, mem,
           modification_lock, allocator_lock, used, capacity, tstate, pc, call,
           writes, armed, settled, hw, held, fresh_allocs, pages_in, encoded,
           vector_in, entry, fields, decoded, x2apic_supported, apic, msr,
           msr_log, apic_pc, apic_call, poll, irq_enabled, enabled_msr,
           irq_on, irq_was, handler_of, irq_ran, flock_pc, flock_args,
           flock_ops, flock_done, flock_ret, ctrl_pc, ctrl_msgs,
           ctrl_privileged, ctrl_next, files, ctrl_ret >>

table_vars == << num_entries, extended_interrupt_mode, seg_paddr, seg_bytes,
                 capacity, tstate >>
codec_vars == << pages_in, encoded, vector_in, entry, fields, decoded >>
apic_vars == << x2apic_supported, apic, msr, msr_log, apic_pc, apic_call, poll,
                irq_enabled, enabled_msr >>
alloc_vars == << allocator_lock, used, held, fresh_allocs >>
write_vars == << mem, modification_lock, writes, armed, settled >>
cpu_vars == << irq_on, irq_was, handler_of, irq_ran >>
flock_vars == << flock_pc, flock_args, flock_ops, flock_done, flock_ret >>
ctrl_vars == << ctrl_pc, ctrl_msgs, ctrl_privileged, ctrl_next, files, ctrl_ret >>
kernel_vars == << flock_vars, ctrl_vars >>

\* ------------------------------------------------------------------ memory

\* The word at byte offset off of the zero-initialised segment.
MemRead(m, off) == IF off \in DOMAIN m THEN m[off] ELSE Zero

\* VmWriter::skip(off).write_once(&word): the word stored at off.  Zero words
\* are not kept, so that equal memories are equal states.
MemWrite(m, off, word) ==
    IF word = Zero
    THEN [o \in (DOMAIN m) \ {off} |-> m[o]]
    ELSE [o \in (DOMAIN m) \cup {off} |-> IF o = off THEN word ELSE m[o]]

\* write_once fails unless the eight bytes lie inside the segment.
InSegment(off, len) == off + len <= seg_bytes


\* ------------------------------------------------------------ construction

Modes == {"XApic", "X2Apic"}

\* new() giving the allocator room for one id more than the table has entries.
new_capacity_plus_one(pages) ==
    LET n == (pages * PAGE_SIZE) \div SizeOfU128
    IN [ok |-> n <= U16Max,
        num_entries |-> IF n <= U16Max THEN n ELSE 0,
        mode |-> "X2Apic",
        bytes |-> pages * PAGE_SIZE,
        capacity |-> IF n <= U16Max THEN n + 1 ELSE 0]

\* IntRemappingTable::new with NUM_PAGES = pages: the fields of the table, or
\* ok = FALSE where try_into::<u16>().unwrap() fails.
new(pages) ==
    LET n == (pages * PAGE_SIZE) \div SizeOfU128
    IN [ok |-> n <= U16Max,
        num_entries |-> IF n <= U16Max THEN n ELSE 0,
        mode |-> "X2Apic",
        bytes |-> pages * PAGE_SIZE,
        capacity |-> IF n <= U16Max THEN n ELSE 0]

\* The physical address the frame allocator gave the one-page table.
BasePaddr == {12}

\* The entries installed: new_enabled(32), an entry with the same lower half
\* and source-validation fields in the upper half, and a non-present entry.
EntryValues == { new_enabled(32), new_enabled(32) \cup {64, 82}, {21, 65} }
\* set_entry is called on the first and on the last slot of the one-page table.
Indices == {0, (NUM_PAGES * PAGE_SIZE) \div SizeOfU128 - 1}

NoCall == [index |-> -1, entry |-> Zero, lowest |-> -1, kth |-> -1]
NoHw == [lower |-> Zero, upper |-> Zero, of |-> NoWord]

\* The registers x2apic.rs reads and writes, each a 64-bit word.
MsrOf(base, sivr, esr, icr) ==
    [IA32_APIC_BASE |-> base, IA32_X2APIC_SIVR |-> sivr,
     IA32_X2APIC_ESR |-> esr, IA32_X2APIC_ICR |-> icr]
NoMsr == MsrOf(NoWord, NoWord, NoWord, NoWord)
NoApicCall == [icr |-> NoWord, base |-> NoWord, irq_was |-> TRUE, same |-> FALSE]
NoPoll == [icr |-> NoWord, esr |-> NoWord]

\* The core before X2Apic::new is called on it: the APIC globally enabled in
\* xAPIC mode, nothing pending, local interrupts enabled.
ApicUnbuilt ==
    /\ x2apic_supported = TRUE
    /\ apic = "uncalled"
    /\ msr = MsrOf({11}, Zero, Zero, Zero)
    /\ msr_log = << >>
    /\ apic_pc = "idle"
    /\ apic_call = NoApicCall
    /\ poll = NoPoll
    /\ irq_enabled = TRUE
    /\ enabled_msr = NoMsr

\* The state right after new() returned table t at physical address paddr.
Constructed(t, paddr, mode) ==
    /\ tstate = IF t.ok THEN "built" ELSE "new_panicked"
    /\ num_entries = t.num_entries
    /\ extended_interrupt_mode = mode
    /\ seg_paddr = paddr
    /\ seg_bytes = t.bytes
    /\ capacity = t.capacity
    /\ mem = << >>
    /\ modification_lock = NoCpu
    /\ allocator_lock = NoCpu
    /\ used = {}
    /\ pc = [c \in Contexts |-> "idle"]
    /\ call = [c \in Contexts |-> NoCall]
    /\ writes = [c \in Contexts |-> << >>]
    /\ armed = [i \in Indices |-> NoWord]
    /\ settled = [i \in Indices |-> NoWord]
    /\ hw = NoHw
    /\ held = << >>
    /\ fresh_allocs = 0
    /\ irq_on = [c \in CPUS |-> TRUE]
    /\ irq_was = [c \in Contexts |-> TRUE]
    /\ irq_ran = {}

\* No interrupt handler is installed: the tasks of the CPUs are all that runs.
NoHandlers == handler_of = [h \in Handlers |-> NoCpu]

NoFields == [flags |-> NoWord, vector |-> 0, destination_id |-> NoWord,
             source_identifier |-> NoWord, source_id_qualifier |-> 0,
             source_validation_type |-> 0, rest |-> NoWord]
NoDecoded == [flags |-> NoWord, vector |-> 0, destination_id |-> NoWord,
              source_identifier |-> NoWord, source_id_qualifier |-> "Err",
              source_validation_type |-> "Err"]

CodecIdle ==
    /\ encoded = NoWord
    /\ vector_in = 0
    /\ entry = NoWord
    /\ fields = NoFields
    /\ decoded = NoDecoded

NoFlockDone == [op |-> "none", type |-> "none", is_nonblocking |-> FALSE]

\* No sys_flock call has been made.
FlockIdle ==
    /\ flock_pc = "idle"
    /\ flock_args = [fd_ok |-> TRUE, ops |-> Zero]
    /\ flock_ops = NoWord
    /\ flock_done = NoFlockDone
    /\ flock_ret = "none"

\* No from_control call has been made.
CtrlIdle ==
    /\ ctrl_pc = "idle"
    /\ ctrl_msgs = << >>
    /\ ctrl_privileged = TRUE
    /\ ctrl_next = 1
    /\ files = << >>
    /\ ctrl_ret = "none"

KernelIdle == FlockIdle /\ CtrlIdle

\* ---------------------------------------------------------------- contexts

\* The CPU a context runs on.
CoreOf(c) == IF c \in CPUS THEN c ELSE handler_of[c]

\* The task of a CPU runs unless an interrupt handler of its CPU is under way.
Runs(c) == \A h \in Handlers : handler_of[h] = c => pc[h] = "idle"

\* An interrupt handler starts only where it is installed and local interrupts
\* are enabled.
CanStart(c) ==
    IF c \in CPUS THEN TRUE
    ELSE IF handler_of[c] = NoCpu THEN FALSE ELSE irq_on[handler_of[c]]

\* SpinLock<_, LocalIrqDisabled>::lock, first half: the guard disables the
\* core's local interrupts and keeps what they were.
LocalIrqDisabled_guard(c) ==
    /\ irq_was' = [irq_was EXCEPT ![c] = irq_on[CoreOf(c)]]
    /\ irq_on' = [irq_on EXCEPT ![CoreOf(c)] = FALSE]

\* The guard is dropped: the core's local interrupts are as they were.
LocalIrqDisabled_drop(c) ==
    /\ irq_on' = [irq_on EXCEPT ![CoreOf(c)] = irq_was[c]]
    /\ irq_was' = [irq_was EXCEPT ![c] = TRUE]

\* ---------------------------------------------------------------- set_entry

\* The offset of a table whose slots are 32 bytes apart.
Offset_32(c) == call[c].index * (SizeOfU128 + SizeOfU128)

\* let offset = (index as usize) * size_of::<u128>();
Offset(c) == call[c].index * SizeOfU128

\* set_entry behind a lock that leaves local interrupts as they are.
set_entry_call_irq_enabled(c, i, e) ==
    /\ Runs(c)
    /\ CanStart(c)
    /\ tstate = "built"
    /\ pc[c] = "idle"
    /\ pc' = [pc EXCEPT ![c] = "se_lock"]
    /\ call' = [call EXCEPT ![c] = [NoCall EXCEPT !.index = i, !.entry = e]]
    /\ UNCHANGED << cpu_vars, apic_vars, kernel_vars, table_vars, codec_vars, alloc_vars, write_vars, hw >>

\* A CPU calls set_entry(index, entry).
set_entry_call(c, i, e) ==
    /\ Runs(c)
    /\ CanStart(c)
    /\ LocalIrqDisabled_guard(c)
    /\ tstate = "built"
    /\ pc[c] = "idle"
    /\ pc' = [pc EXCEPT ![c] = "se_lock"]
    /\ call' = [call EXCEPT ![c] = [NoCall EXCEPT !.index = i, !.entry = e]]
    /\ UNCHANGED << handler_of, irq_ran, apic_vars, kernel_vars, table_vars, codec_vars, alloc_vars, write_vars, hw >>

\* set_entry with `let _ = ...lock()`: the guard is dropped at once, the lock
\* is waited for and not held.
set_entry_lock_dropped(c) ==
    /\ Runs(c)
    /\ pc[c] = "se_lock"
    /\ modification_lock = NoCpu
    /\ pc' = [pc EXCEPT ![c] = "se_w1"]
    /\ settled' = [settled EXCEPT ![call[c].index] = NoWord]
    /\ UNCHANGED << cpu_vars, apic_vars, kernel_vars, table_vars, codec_vars, alloc_vars, mem, writes, armed, call,
                    hw, modification_lock >>

\* let _guard = self.modification_lock.lock();
set_entry_lock(c) ==
    /\ Runs(c)
    /\ pc[c] = "se_lock"
    /\ modification_lock = NoCpu
    /\ modification_lock' = c
    /\ pc' = [pc EXCEPT ![c] = "se_w1"]
    /\ settled' = [settled EXCEPT ![call[c].index] = NoWord]
    /\ UNCHANGED << cpu_vars, apic_vars, kernel_vars, table_vars, codec_vars, alloc_vars, mem, writes, armed, call, hw >>

\* One write_once(&word) at byte offset off by CPU c, then on to pc value next;
\* unwrap() panics when the word is not inside the segment.
WriteOnce(c, off, word, next) ==
    IF InSegment(off, SizeOfU64)
    THEN /\ mem' = MemWrite(mem, off, word)
         /\ writes' = [writes EXCEPT ![c] =
                Append(@, [off |-> off, word |-> word,
                           locked |-> modification_lock = c])]
         /\ pc' = [pc EXCEPT ![c] = next]
    ELSE /\ pc' = [pc EXCEPT ![c] = "panic"]
         /\ UNCHANGED << mem, writes >>

\* set_entry without the write that clears the lower half.
set_entry_write1_skipped(c) ==
    /\ Runs(c)
    /\ pc[c] = "se_w1"
    /\ pc' = [pc EXCEPT ![c] = "se_w2"]
    /\ UNCHANGED << cpu_vars, apic_vars, kernel_vars, table_vars, codec_vars, alloc_vars, write_vars, call, hw >>

\* set_entry writing the lower half second (and third), the upper half never.
set_entry_write2_lower_first(c) ==
    /\ Runs(c)
    /\ pc[c] = "se_w2"
    /\ WriteOnce(c, Offset(c), as_raw_u64(call[c].entry)[1], "se_w3")
    /\ UNCHANGED << cpu_vars, apic_vars, kernel_vars, table_vars, codec_vars, alloc_vars, modification_lock,
                    armed, settled, call, hw >>

\* set_entry storing the new lower half at once where it should store zero.
set_entry_write1_lower(c) ==
    /\ Runs(c)
    /\ pc[c] = "se_w1"
    /\ WriteOnce(c, Offset(c), as_raw_u64(call[c].entry)[1], "se_w2")
    /\ UNCHANGED << cpu_vars, apic_vars, kernel_vars, table_vars, codec_vars, alloc_vars, modification_lock,
                    armed, settled, call, hw >>

\* self.segment.writer().skip(offset).write_once(&0u64).unwrap();
set_entry_write1(c) ==
    /\ Runs(c)
    /\ pc[c] = "se_w1"
    /\ WriteOnce(c, Offset(c), Zero, "se_w2")
    /\ UNCHANGED << cpu_vars, apic_vars, kernel_vars, table_vars, codec_vars, alloc_vars, modification_lock,
                    armed, settled, call, hw >>

\* set_entry storing the upper half in the slot after its own.
set_entry_write2_next_slot(c) ==
    /\ Runs(c)
    /\ pc[c] = "se_w2"
    /\ WriteOnce(c, Offset(c) + SizeOfU128 + SizeOfU64, as_raw_u64(call[c].entry)[2], "se_w3")
    /\ UNCHANGED << cpu_vars, apic_vars, kernel_vars, table_vars, codec_vars, alloc_vars, modification_lock,
                    armed, settled, call, hw >>

\* self.segment.writer().skip(offset + size_of::<u64>()).write_once(&upper).unwrap();
set_entry_write2(c) ==
    /\ Runs(c)
    /\ pc[c] = "se_w2"
    /\ WriteOnce(c, Offset(c) + SizeOfU64, as_raw_u64(call[c].entry)[2], "se_w3")
    /\ UNCHANGED << cpu_vars, apic_vars, kernel_vars, table_vars, codec_vars, alloc_vars, modification_lock,
                    armed, settled, call, hw >>

\* self.segment.writer().skip(offset).write_once(&lower).unwrap();
set_entry_write3(c) ==
    /\ Runs(c)
    /\ pc[c] = "se_w3"
    /\ WriteOnce(c, Offset(c), as_raw_u64(call[c].entry)[1], "se_drop")
    /\ armed' = [armed EXCEPT ![call[c].index] =
                    IF pc'[c] = "se_drop" THEN call[c].entry ELSE @]
    /\ UNCHANGED << cpu_vars, apic_vars, kernel_vars, table_vars, codec_vars, alloc_vars, modification_lock,
                    settled, call, hw >>

\* set_entry returns: _guard is dropped at the end of the function.
set_entry_return(c) ==
    /\ Runs(c)
    /\ LocalIrqDisabled_drop(c)
    /\ pc[c] = "se_drop"
    /\ modification_lock' = IF modification_lock = c THEN NoCpu ELSE modification_lock
    /\ pc' = [pc EXCEPT ![c] = "idle"]
    /\ settled' = [settled EXCEPT ![call[c].index] = call[c].entry]
    /\ call' = [call EXCEPT ![c] = NoCall]
    /\ writes' = [writes EXCEPT ![c] = << >>]
    /\ UNCHANGED << handler_of, irq_ran, apic_vars, kernel_vars, table_vars, codec_vars, alloc_vars, mem, armed, hw >>

\* The remapping hardware fetches the 128-bit entry of slot i.
hw_read(i) ==
    /\ tstate = "built"
    /\ hw' = [lower |-> MemRead(mem, i * SizeOfU128),
              upper |-> MemRead(mem, i * SizeOfU128 + SizeOfU64),
              of |-> armed[i]]
    /\ UNCHANGED << cpu_vars, apic_vars, kernel_vars, table_vars, codec_vars, alloc_vars, write_vars, pc, call >>

\* -------------------------------------------------------------------- alloc

\* IdAlloc::alloc on the set of ids in use: the lowest free id, or None.
IdAlloc_first_free(ids, cap) ==
    IF \E i \in 0..(cap - 1) : i \notin ids
    THEN CHOOSE i \in 0..(cap - 1) :
            i \notin ids /\ \A j \in 0..(i - 1) : j \in ids
    ELSE NoId

\* The least index of the table that is not in ids (num_entries if none is).
LowestFree(ids) ==
    LET free == {i \in 0..(num_entries - 1) : i \notin ids}
    IN IF free = {} THEN num_entries
       ELSE CHOOSE i \in free : \A j \in free : i <= j

\* A handle numbered from one.
AsU16_plus_one(index) == (index + 1) % (U16Max + 1)

\* index as u16
AsU16(index) == index % (U16Max + 1)

\* The number of live handles with index i.
Live(i) == IF i \in DOMAIN held THEN held[i] ELSE 0

\* The live handles after one more with index i is created (n = 1) or one is
\* dropped (n = -1).
HeldPlus(i, n) ==
    LET dom == IF Live(i) + n > 0 THEN (DOMAIN held) \cup {i} ELSE (DOMAIN held) \ {i}
    IN [j \in dom |-> IF j = i THEN Live(i) + n ELSE held[j]]

\* A CPU calls alloc().
alloc_call(c) ==
    /\ Runs(c)
    /\ CanStart(c)
    /\ LocalIrqDisabled_guard(c)
    /\ tstate = "built"
    /\ pc[c] = "idle"
    /\ pc' = [pc EXCEPT ![c] = "al_lock"]
    /\ UNCHANGED << handler_of, irq_ran, apic_vars, kernel_vars, table_vars, codec_vars, alloc_vars, write_vars, hw, call >>

\* alloc waiting for the allocator lock and not holding it.
alloc_lock_dropped(c) ==
    /\ Runs(c)
    /\ pc[c] = "al_lock"
    /\ allocator_lock = NoCpu
    /\ pc' = [pc EXCEPT ![c] = "al_find"]
    /\ UNCHANGED << cpu_vars, apic_vars, kernel_vars, table_vars, codec_vars, write_vars, hw, call, alloc_vars >>

\* self.allocator.lock(): the lock is taken once no CPU holds it.
alloc_lock(c) ==
    /\ Runs(c)
    /\ pc[c] = "al_lock"
    /\ allocator_lock = NoCpu
    /\ allocator_lock' = c
    /\ pc' = [pc EXCEPT ![c] = "al_find"]
    /\ UNCHANGED << cpu_vars, apic_vars, kernel_vars, table_vars, codec_vars, write_vars, hw, call, used, held,
                    fresh_allocs >>

\* IdAlloc::alloc, first half: look for the lowest free id.
id_alloc_find(c) ==
    /\ Runs(c)
    /\ pc[c] = "al_find"
    /\ LET id == IdAlloc_first_free(used, capacity)
       IN IF id = NoId
          THEN /\ pc' = [pc EXCEPT ![c] = "al_none"]
               /\ call' = call
          ELSE /\ pc' = [pc EXCEPT ![c] = "al_mark"]
               /\ call' = [call EXCEPT ![c] =
                     [NoCall EXCEPT !.index = id,
                                    !.lowest = IF allocator_lock = c
                                               THEN LowestFree(used)
                                               ELSE -1]]
    /\ UNCHANGED << cpu_vars, apic_vars, kernel_vars, table_vars, codec_vars, alloc_vars, write_vars, hw >>

\* IdAlloc::alloc, second half: mark the id found as in use.
id_alloc_mark(c) ==
    /\ Runs(c)
    /\ pc[c] = "al_mark"
    /\ used' = used \cup {call[c].index}
    /\ fresh_allocs' = IF fresh_allocs >= 0 THEN fresh_allocs + 1 ELSE fresh_allocs
    /\ call' = [call EXCEPT ![c].kth = fresh_allocs']
    /\ pc' = [pc EXCEPT ![c] = "al_some"]
    /\ UNCHANGED << cpu_vars, apic_vars, kernel_vars, table_vars, codec_vars, write_vars, hw, allocator_lock, held >>

\* The guard is dropped and `?` returns None.
alloc_return_none(c) ==
    /\ Runs(c)
    /\ LocalIrqDisabled_drop(c)
    /\ pc[c] = "al_none"
    /\ allocator_lock' = IF allocator_lock = c THEN NoCpu ELSE allocator_lock
    /\ pc' = [pc EXCEPT ![c] = "idle"]
    /\ UNCHANGED << handler_of, irq_ran, apic_vars, kernel_vars, table_vars, codec_vars, write_vars, hw, call, used, held,
                    fresh_allocs >>

\* The guard is dropped and Some(IrtEntryHandle { index: index as u16, table })
\* is returned: one more live handle with that index.
alloc_return_some(c) ==
    /\ Runs(c)
    /\ LocalIrqDisabled_drop(c)
    /\ pc[c] = "al_some"
    /\ allocator_lock' = IF allocator_lock = c THEN NoCpu ELSE allocator_lock
    /\ held' = HeldPlus(AsU16(call[c].index), 1)
    /\ call' = [call EXCEPT ![c] = NoCall]
    /\ pc' = [pc EXCEPT ![c] = "idle"]
    /\ UNCHANGED << handler_of, irq_ran, apic_vars, kernel_vars, table_vars, codec_vars, write_vars, hw, used, fresh_allocs >>

\* A handle with index i is released: IdAlloc::free(i) under the allocator lock.
release(i) ==
    /\ Live(i) > 0
    /\ allocator_lock = NoCpu
    /\ used' = used \ {i}
    /\ held' = HeldPlus(i, -1)
    /\ fresh_allocs' = -1
    /\ UNCHANGED << cpu_vars, apic_vars, kernel_vars, table_vars, codec_vars, write_vars, hw, allocator_lock, pc, call >>

Init ==
    /\ Constructed(new(NUM_PAGES), BasePaddr, new(NUM_PAGES).mode)
    /\ NoHandlers
    /\ KernelIdle
    /\ ApicUnbuilt
    /\ pages_in = NUM_PAGES
    /\ CodecIdle

Next ==
    \/ \E c \in CPUS, i \in Indices, e \in EntryValues : set_entry_call(c, i, e)
    \/ \E c \in CPUS : set_entry_lock(c)
    \/ \E c \in CPUS : set_entry_write1(c)
    \/ \E c \in CPUS : set_entry_write2(c)
    \/ \E c \in CPUS : set_entry_write3(c)
    \/ \E c \in CPUS : set_entry_return(c)
    \/ \E i \in Indices : hw_read(i)

Spec == Init /\ [][Next]_vars

NextAlloc ==
    \/ \E c \in CPUS : alloc_call(c)
    \/ \E c \in CPUS : alloc_lock(c)
    \/ \E c \in CPUS : id_alloc_find(c)
    \/ \E c \in CPUS : id_alloc_mark(c)
    \/ \E c \in CPUS : alloc_return_none(c)
    \/ \E c \in CPUS : alloc_return_some(c)
    \/ \E i \in 0..(ReleaseWindow - 1) : release(i)

SpecAlloc == Init /\ [][NextAlloc]_vars

\* ---------------------------------------------------- alloc with set_entry

\* The CPU each interrupt handler is installed on, one handler to a CPU.
HandlerMaps ==
    {h \in [Handlers -> CPUS \cup {NoCpu}] :
        \A c, d \in Handlers : (c # d /\ h[c] # NoCpu) => h[c] # h[d]}

\* The entry drivers install through their handles.
TableEntries == { new_enabled(32) \cup {64, 82} }

\* The table of new() after all but FreeAtStart of its indices have been
\* allocated, every handle still live, no call under way.
InitTable ==
    LET t == new(NUM_PAGES)
        ids == 0..(t.num_entries - 1 - FreeAtStart)
    IN /\ tstate = "built"
       /\ num_entries = t.num_entries
       /\ extended_interrupt_mode = t.mode
       /\ seg_paddr = BasePaddr
       /\ seg_bytes = t.bytes
       /\ capacity = t.capacity
       /\ mem = << >>
       /\ modification_lock = NoCpu
       /\ allocator_lock = NoCpu
       /\ used = ids
       /\ held = [i \in ids |-> 1]
       /\ fresh_allocs = Cardinality(ids)
       /\ pc = [c \in Contexts |-> "idle"]
       /\ call = [c \in Contexts |-> NoCall]
       /\ writes = [c \in Contexts |-> << >>]
       /\ armed = [i \in Indices |-> NoWord]
       /\ settled = [i \in Indices |-> NoWord]
       /\ hw = NoHw
       /\ irq_on = [c \in CPUS |-> TRUE]
       /\ irq_was = [c \in Contexts |-> TRUE]
       /\ irq_ran = {}
       /\ handler_of \in HandlerMaps
       /\ KernelIdle
       /\ ApicUnbuilt
       /\ pages_in = NUM_PAGES
       /\ CodecIdle

\* The steps of a call that wait for no lock.
TableStep(c) ==
    \/ set_entry_write1(c)
    \/ set_entry_write2(c)
    \/ set_entry_write3(c)
    \/ set_entry_return(c)
    \/ id_alloc_find(c)
    \/ id_alloc_mark(c)
    \/ alloc_return_none(c)
    \/ alloc_return_some(c)

\* Tasks and interrupt handlers call alloc, and set_entry through the handles
\* alloc returned.
NextTable ==
    \/ \E c \in Contexts, i \in Indices \cap DOMAIN held, e \in TableEntries :
          set_entry_call(c, i, e)
    \/ \E c \in Contexts : alloc_call(c)
    \/ \E c \in Contexts : set_entry_lock(c)
    \/ \E c \in Contexts : alloc_lock(c)
    \/ \E c \in Contexts : TableStep(c)

SpecTable == InitTable /\ [][NextTable]_vars

\* Every context executes its next instruction, and a spinning context gets
\* the lock if it is free again and again (a fair lock).
SpecTableFair ==
    /\ SpecTable
    /\ \A c \in Contexts : WF_vars(TableStep(c))
    /\ \A c \in Contexts : SF_vars(set_entry_lock(c))
    /\ \A c \in Contexts : SF_vars(alloc_lock(c))

\* ------------------------------------------------------------------- encode

\* u16::is_power_of_two
is_power_of_two(n) == Cardinality(BitsOf(n)) = 1

\* u16::trailing_zeros
trailing_zeros(n) ==
    IF n = 0 THEN 16
    ELSE CHOOSE i \in BitsOf(n) : \A j \in BitsOf(n) : i <= j

\* The size field without the subtraction of one.
encode_size_no_sub(n) ==
    LET tz == trailing_zeros(n)
    IN [ok |-> is_power_of_two(n) /\ tz >= 1 /\ tz <= 15, size |-> tz]

\* The Size (S) field of encode(): ok = FALSE where an assert! or the unwrap()
\* of checked_sub(1) fails.
encode_size(n) ==
    LET tz == trailing_zeros(n)
        size == tz - 1
    IN [ok |-> is_power_of_two(n) /\ tz >= 1 /\ size <= 15,
        size |-> IF tz >= 1 THEN size ELSE 0]

\* encode() with EIME at bit 10.
encode_value_eime10(paddr, mode, n) ==
    paddr \cup (IF mode = "X2Apic" THEN {10} ELSE {}) \cup BitsOf(encode_size(n).size)

\* IntRemappingTable::encode: start_paddr | EIME (bit 11) | size.
encode_value(paddr, mode, n) ==
    paddr \cup (IF mode = "X2Apic" THEN {11} ELSE {}) \cup BitsOf(encode_size(n).size)

\* A caller evaluates encode().
encode ==
    /\ tstate = "built"
    /\ IF encode_size(num_entries).ok
       THEN /\ encoded' = encode_value(seg_paddr, extended_interrupt_mode, num_entries)
            /\ UNCHANGED tstate
       ELSE /\ tstate' = "encode_panicked"
            /\ UNCHANGED encoded
    /\ UNCHANGED << num_entries, extended_interrupt_mode, seg_paddr, seg_bytes,
                    capacity, pages_in, vector_in, entry, fields, decoded,
                    apic_vars, kernel_vars, cpu_vars, alloc_vars, write_vars, hw, pc, call >>

\* Page-aligned physical addresses a segment may start at.
PAddrs == { {12}, {12, 31, 32}, {13, 63} }

\* Tables as new() builds them for any page count; the XApic variant, which
\* new() never selects, is drawn too so that both arms of encode()'s match run.
InitEncode ==
    /\ pages_in \in 1..MaxPages
    /\ \E paddr \in PAddrs, mode \in Modes : Constructed(new(pages_in), paddr, mode)
    /\ NoHandlers
    /\ KernelIdle
    /\ ApicUnbuilt
    /\ CodecIdle

NextEncode == encode

SpecEncode == InitEncode /\ [][NextEncode]_vars

\* ------------------------------------------------------------- entry codec

\* A caller evaluates IrtEntry::new_enabled(vector_in).
build_entry ==
    /\ entry' = new_enabled(vector_in)
    /\ UNCHANGED << table_vars, pages_in, encoded, vector_in, fields, decoded,
                    apic_vars, kernel_vars, cpu_vars, alloc_vars, write_vars, hw, pc, call >>

InitEntry ==
    /\ Constructed(new(NUM_PAGES), BasePaddr, new(NUM_PAGES).mode)
    /\ NoHandlers
    /\ KernelIdle
    /\ ApicUnbuilt
    /\ pages_in = NUM_PAGES
    /\ encoded = NoWord
    /\ entry = NoWord
    /\ fields = NoFields
    /\ decoded = NoDecoded
    /\ vector_in \in 0..MaxVector

NextEntry == build_entry

SpecEntry == InitEntry /\ [][NextEntry]_vars

\* ------------------------------------------------------------------ x2apic

irt_vars == << table_vars, codec_vars, alloc_vars, write_vars, cpu_vars,
              kernel_vars, hw, pc, call >>

\* rdmsr and wrmsr on registers that behave as plain storage.
Rdmsr(reg) == msr[reg]
Wrmsr(reg, val) == [msr EXCEPT ![reg] = val]

\* The log with one more access, while it has room.
Logged(op, reg, val) ==
    IF Len(msr_log) < MaxLog
    THEN Append(msr_log, [op |-> op, reg |-> reg, val |-> val])
    ELSE msr_log

\* X2Apic::has_x2apic reporting the extension whatever the CPU says.
has_x2apic_always == TRUE

\* X2Apic::has_x2apic: has_extensions(IsaExtensions::X2APIC)
has_x2apic == x2apic_supported

\* X2Apic::new: None unless has_x2apic(), else Some(Self { _private: () }).
x2apic_new ==
    /\ apic = "uncalled"
    /\ apic_pc = "idle"
    /\ apic' = IF ~has_x2apic THEN "None" ELSE "Some"
    /\ msr_log' = << >>
    /\ UNCHANGED << x2apic_supported, msr, apic_pc, apic_call, poll, irq_enabled,
                    enabled_msr, irt_vars >>

\* const X2APIC_ENABLE_BITS: u64 = (1 << EN_BIT_IDX) | (1 << EXTD_BIT_IDX)
X2APIC_ENABLE_BITS == {EN_BIT_IDX, EXTD_BIT_IDX}

\* let svr: u64 = (1 << 8) | 15;
svr == {8} \cup BitsOf(15)

\* The core calls enable() on its controller.
enable_call ==
    /\ apic = "Some"
    /\ apic_pc = "idle"
    /\ apic_pc' = "en_rd_base"
    /\ msr_log' = << >>
    /\ apic_call' = [NoApicCall EXCEPT !.same = (msr = enabled_msr)]
    /\ UNCHANGED << x2apic_supported, apic, msr, poll, irq_enabled, enabled_msr,
                    irt_vars >>

\* enable writing the base register whatever it read.
enable_read_base_always_write ==
    /\ apic_pc = "en_rd_base"
    /\ apic_call' = [apic_call EXCEPT !.base = Rdmsr("IA32_APIC_BASE")]
    /\ msr_log' = Logged("rd", "IA32_APIC_BASE", Rdmsr("IA32_APIC_BASE"))
    /\ apic_pc' = "en_wr_base"
    /\ UNCHANGED << x2apic_supported, apic, msr, poll, irq_enabled, enabled_msr,
                    irt_vars >>

\* let mut base = rdmsr(IA32_APIC_BASE);
\* if base & X2APIC_ENABLE_BITS != X2APIC_ENABLE_BITS { ... }
enable_read_base ==
    /\ apic_pc = "en_rd_base"
    /\ apic_call' = [apic_call EXCEPT !.base = Rdmsr("IA32_APIC_BASE")]
    /\ msr_log' = Logged("rd", "IA32_APIC_BASE", Rdmsr("IA32_APIC_BASE"))
    /\ apic_pc' = IF Rdmsr("IA32_APIC_BASE") \cap X2APIC_ENABLE_BITS # X2APIC_ENABLE_BITS
                  THEN "en_wr_base"
                  ELSE "en_wr_sivr"
    /\ UNCHANGED << x2apic_supported, apic, msr, poll, irq_enabled, enabled_msr,
                    irt_vars >>

\* enable writing the two enable bits alone, without the bits it read.
enable_write_base_bits_only ==
    /\ apic_pc = "en_wr_base"
    /\ apic_call' = [apic_call EXCEPT !.base = X2APIC_ENABLE_BITS]
    /\ msr' = Wrmsr("IA32_APIC_BASE", X2APIC_ENABLE_BITS)
    /\ msr_log' = Logged("wr", "IA32_APIC_BASE", X2APIC_ENABLE_BITS)
    /\ apic_pc' = "en_wr_sivr"
    /\ UNCHANGED << x2apic_supported, apic, poll, irq_enabled, enabled_msr,
                    irt_vars >>

\* base |= X2APIC_ENABLE_BITS; wrmsr(IA32_APIC_BASE, base);
enable_write_base ==
    /\ apic_pc = "en_wr_base"
    /\ LET base == apic_call.base \cup X2APIC_ENABLE_BITS
       IN /\ apic_call' = [apic_call EXCEPT !.base = base]
          /\ msr' = Wrmsr("IA32_APIC_BASE", base)
          /\ msr_log' = Logged("wr", "IA32_APIC_BASE", base)
    /\ apic_pc' = "en_wr_sivr"
    /\ UNCHANGED << x2apic_supported, apic, poll, irq_enabled, enabled_msr,
                    irt_vars >>

\* wrmsr(IA32_X2APIC_SIVR, svr);
enable_write_sivr ==
    /\ apic_pc = "en_wr_sivr"
    /\ msr' = Wrmsr("IA32_X2APIC_SIVR", svr)
    /\ msr_log' = Logged("wr", "IA32_X2APIC_SIVR", svr)
    /\ apic_pc' = "en_ret"
    /\ UNCHANGED << x2apic_supported, apic, apic_call, poll, irq_enabled,
                    enabled_msr, irt_vars >>

\* enable() returns.
enable_return ==
    /\ apic_pc = "en_ret"
    /\ apic_pc' = "idle"
    /\ enabled_msr' = msr
    /\ apic_call' = NoApicCall
    /\ UNCHANGED << x2apic_supported, apic, msr, msr_log, poll, irq_enabled,
                    irt_vars >>

\* The interrupt commands callers send: a fixed interrupt to one core, and a
\* command value that has the delivery-status bit set already.
IcrValues == { {4, 5, 14, 32}, {4, 5, DeliveryStatusBit, 14, 63} }

\* The core calls send_ipi(icr) on its controller.
send_ipi_call(icr) ==
    /\ apic = "Some"
    /\ apic_pc = "idle"
    /\ apic_pc' = "ipi_disable_local"
    /\ apic_call' = [NoApicCall EXCEPT !.icr = icr]
    /\ msr_log' = << >>
    /\ poll' = NoPoll
    /\ UNCHANGED << x2apic_supported, apic, msr, irq_enabled, enabled_msr,
                    irt_vars >>

\* send_ipi with a guard that leaves local interrupts as they are.
send_ipi_disable_local_enabled ==
    /\ apic_pc = "ipi_disable_local"
    /\ apic_call' = [apic_call EXCEPT !.irq_was = irq_enabled]
    /\ apic_pc' = "ipi_wr_esr"
    /\ UNCHANGED << x2apic_supported, apic, msr, msr_log, poll, irq_enabled,
                    enabled_msr, irt_vars >>

\* let _guard = crate::irq::disable_local();
send_ipi_disable_local ==
    /\ apic_pc = "ipi_disable_local"
    /\ apic_call' = [apic_call EXCEPT !.irq_was = irq_enabled]
    /\ irq_enabled' = FALSE
    /\ apic_pc' = "ipi_wr_esr"
    /\ UNCHANGED << x2apic_supported, apic, msr, msr_log, poll, enabled_msr,
                    irt_vars >>

\* send_ipi going on to the command write without clearing the ESR.
send_ipi_clear_esr_skipped ==
    /\ apic_pc = "ipi_wr_esr"
    /\ apic_pc' = "ipi_wr_icr"
    /\ UNCHANGED << x2apic_supported, apic, msr, msr_log, apic_call, poll,
                    irq_enabled, enabled_msr, irt_vars >>

\* wrmsr(IA32_X2APIC_ESR, 0);
send_ipi_clear_esr ==
    /\ apic_pc = "ipi_wr_esr"
    /\ msr' = Wrmsr("IA32_X2APIC_ESR", Zero)
    /\ msr_log' = Logged("wr", "IA32_X2APIC_ESR", Zero)
    /\ apic_pc' = "ipi_wr_icr"
    /\ UNCHANGED << x2apic_supported, apic, apic_call, poll, irq_enabled,
                    enabled_msr, irt_vars >>

\* wrmsr(IA32_X2APIC_ICR, icr.0);
send_ipi_write_icr ==
    /\ apic_pc = "ipi_wr_icr"
    /\ msr' = Wrmsr("IA32_X2APIC_ICR", apic_call.icr)
    /\ msr_log' = Logged("wr", "IA32_X2APIC_ICR", apic_call.icr)
    /\ apic_pc' = "ipi_rd_icr"
    /\ UNCHANGED << x2apic_supported, apic, apic_call, poll, irq_enabled,
                    enabled_msr, irt_vars >>

\* ((icr >> 12) & 0x1) == 0
delivered(icr) == Shr(icr, DeliveryStatusBit) \cap {0} = Zero

\* The poll loop going on to the ESR read whatever the ICR shows.
send_ipi_read_icr_no_break ==
    /\ apic_pc = "ipi_rd_icr"
    /\ poll' = [icr |-> Rdmsr("IA32_X2APIC_ICR"), esr |-> NoWord]
    /\ msr_log' = Logged("rd", "IA32_X2APIC_ICR", Rdmsr("IA32_X2APIC_ICR"))
    /\ apic_pc' = "ipi_rd_esr"
    /\ UNCHANGED << x2apic_supported, apic, msr, apic_call, irq_enabled,
                    enabled_msr, irt_vars >>

\* let icr = rdmsr(IA32_X2APIC_ICR); if ((icr >> 12) & 0x1) == 0 { break; }
send_ipi_read_icr ==
    /\ apic_pc = "ipi_rd_icr"
    /\ poll' = [icr |-> Rdmsr("IA32_X2APIC_ICR"), esr |-> NoWord]
    /\ msr_log' = Logged("rd", "IA32_X2APIC_ICR", Rdmsr("IA32_X2APIC_ICR"))
    /\ apic_pc' = IF delivered(Rdmsr("IA32_X2APIC_ICR")) THEN "ipi_ret"
                  ELSE "ipi_rd_esr"
    /\ UNCHANGED << x2apic_supported, apic, msr, apic_call, irq_enabled,
                    enabled_msr, irt_vars >>

\* The poll loop leaving after its ESR read whatever the value.
send_ipi_read_esr_break ==
    /\ apic_pc = "ipi_rd_esr"
    /\ poll' = [poll EXCEPT !.esr = Rdmsr("IA32_X2APIC_ESR")]
    /\ msr_log' = Logged("rd", "IA32_X2APIC_ESR", Rdmsr("IA32_X2APIC_ESR"))
    /\ apic_pc' = "ipi_ret"
    /\ UNCHANGED << x2apic_supported, apic, msr, apic_call, irq_enabled,
                    enabled_msr, irt_vars >>

\* if rdmsr(IA32_X2APIC_ESR) > 0 { break; }
send_ipi_read_esr ==
    /\ apic_pc = "ipi_rd_esr"
    /\ poll' = [poll EXCEPT !.esr = Rdmsr("IA32_X2APIC_ESR")]
    /\ msr_log' = Logged("rd", "IA32_X2APIC_ESR", Rdmsr("IA32_X2APIC_ESR"))
    /\ apic_pc' = IF Rdmsr("IA32_X2APIC_ESR") # Zero THEN "ipi_ret"
                  ELSE "ipi_rd_icr"
    /\ UNCHANGED << x2apic_supported, apic, msr, apic_call, irq_enabled,
                    enabled_msr, irt_vars >>

\* send_ipi returns: _guard is dropped and restores the interrupt state.
send_ipi_return ==
    /\ apic_pc = "ipi_ret"
    /\ irq_enabled' = apic_call.irq_was
    /\ apic_call' = NoApicCall
    /\ apic_pc' = "idle"
    /\ UNCHANGED << x2apic_supported, apic, msr, msr_log, poll, enabled_msr,
                    irt_vars >>

Polling == apic_pc \in {"ipi_rd_icr", "ipi_rd_esr"}

\* The send-illegal-vector error of the ESR.
EsrError == {5}

\* The local APIC (or the host emulating it) marks the command pending.
apic_hw_pending ==
    /\ Polling
    /\ DeliveryStatusBit \notin msr["IA32_X2APIC_ICR"]
    /\ msr' = Wrmsr("IA32_X2APIC_ICR", msr["IA32_X2APIC_ICR"] \cup {DeliveryStatusBit})
    /\ UNCHANGED << x2apic_supported, apic, msr_log, apic_pc, apic_call, poll,
                    irq_enabled, enabled_msr, irt_vars >>

\* The command is accepted: the delivery-status bit reads clear.
apic_hw_delivered ==
    /\ Polling
    /\ DeliveryStatusBit \in msr["IA32_X2APIC_ICR"]
    /\ msr' = Wrmsr("IA32_X2APIC_ICR", msr["IA32_X2APIC_ICR"] \ {DeliveryStatusBit})
    /\ UNCHANGED << x2apic_supported, apic, msr_log, apic_pc, apic_call, poll,
                    irq_enabled, enabled_msr, irt_vars >>

\* An error is recorded in the ESR.
apic_hw_error ==
    /\ Polling
    /\ msr["IA32_X2APIC_ESR"] = Zero
    /\ msr' = Wrmsr("IA32_X2APIC_ESR", EsrError)
    /\ UNCHANGED << x2apic_supported, apic, msr_log, apic_pc, apic_call, poll,
                    irq_enabled, enabled_msr, irt_vars >>

\* The host shows the ESR as zero again.
apic_hw_error_hidden ==
    /\ Polling
    /\ msr["IA32_X2APIC_ESR"] # Zero
    /\ msr' = Wrmsr("IA32_X2APIC_ESR", Zero)
    /\ UNCHANGED << x2apic_supported, apic, msr_log, apic_pc, apic_call, poll,
                    irq_enabled, enabled_msr, irt_vars >>

\* Where send_ipi is once its guard exists, up to the guard's drop.
Guarded == {"ipi_wr_esr", "ipi_wr_icr", "ipi_rd_icr", "ipi_rd_esr", "ipi_ret"}

\* An interrupt arrives while local interrupts are enabled, and its handler
\* calls send_ipi(icr) on the same core: it clears the ESR, writes its command
\* and polls until the command is accepted or an error shows; the interrupt
\* return leaves the interrupt state as the handler found it.
irq_handler_send_ipi(icr, err) ==
    /\ apic = "Some"
    /\ irq_enabled
    /\ msr' = [msr EXCEPT !["IA32_X2APIC_ESR"] = IF err THEN EsrError ELSE Zero,
                          !["IA32_X2APIC_ICR"] = IF err THEN icr
                                                 ELSE icr \ {DeliveryStatusBit}]
    /\ irq_ran' = irq_ran \cup {apic_pc}
    /\ UNCHANGED << x2apic_supported, apic, msr_log, apic_pc, apic_call, poll,
                    irq_enabled, enabled_msr, table_vars, codec_vars,
                    alloc_vars, write_vars, irq_on, irq_was, handler_of,
                    kernel_vars, hw, pc, call >>

\* The values IA32_APIC_BASE may hold at bring-up: the APIC disabled,
\* enabled in xAPIC mode, EXTD without EN, and x2APIC mode already on; bit 8
\* marks the bootstrap processor, bits 12 and up are the base address.
BaseValues ==
    { {8, 12, 35}, {8, EN_BIT_IDX, 12, 35}, {8, EXTD_BIT_IDX, 12, 35},
      {8, EXTD_BIT_IDX, EN_BIT_IDX, 12, 35} }

InitApic ==
    /\ Constructed(new(NUM_PAGES), BasePaddr, new(NUM_PAGES).mode)
    /\ NoHandlers
    /\ KernelIdle
    /\ pages_in = NUM_PAGES
    /\ CodecIdle
    /\ x2apic_supported \in BOOLEAN
    /\ apic = "uncalled"
    /\ \E base \in BaseValues : msr = MsrOf(base, Zero, Zero, Zero)
    /\ msr_log = << >>
    /\ apic_pc = "idle"
    /\ apic_call = NoApicCall
    /\ poll = NoPoll
    /\ irq_enabled \in BOOLEAN
    /\ enabled_msr = NoMsr

\* What the core itself does once it is inside enable or send_ipi.
ApicStep ==
    \/ enable_read_base
    \/ enable_write_base
    \/ enable_write_sivr
    \/ enable_return
    \/ send_ipi_disable_local
    \/ send_ipi_clear_esr
    \/ send_ipi_write_icr
    \/ send_ipi_read_icr
    \/ send_ipi_read_esr
    \/ send_ipi_return

NextApic ==
    \/ x2apic_new
    \/ enable_call
    \/ \E icr \in IcrValues : send_ipi_call(icr)
    \/ ApicStep
    \/ apic_hw_pending
    \/ apic_hw_delivered
    \/ apic_hw_error
    \/ apic_hw_error_hidden

SpecApic == InitApic /\ [][NextApic]_vars

\* The core with interrupts arriving whose handlers send interrupts too.
NextApicIrq ==
    \/ NextApic
    \/ \E icr \in IcrValues, err \in BOOLEAN : irq_handler_send_ipi(icr, err)

SpecApicIrq == InitApic /\ [][NextApicIrq]_vars

\* The core executes its instructions: inside send_ipi local interrupts are
\* disabled, so nothing keeps it from its next step.
SpecApicFair == SpecApic /\ WF_vars(ApicStep)

\* ---------------------------------------------------------- entry accessors

\* The 128-bit value with the given 64-bit halves.
FromWords(lower, upper) == Trunc(lower, 64) \cup Shl(upper, 64, 128)

\* The entry laid out from field values: each field at the position its
\* accessor's mask names, the source-id qualifier in the two bits between the
\* source identifier (79:64) and the source-validation type (83:82).
Layout(f) ==
    f.flags
      \cup Shl(BitsOf(f.vector), 16, 128)
      \cup Shl(f.destination_id, 32, 128)
      \cup Shl(f.source_identifier, 64, 128)
      \cup Shl(BitsOf(f.source_id_qualifier), 80, 128)
      \cup Shl(BitsOf(f.source_validation_type), 82, 128)
      \cup f.rest

\* The field values entries are laid out from: every combination of flags,
\* of the two-bit fields, and of boundary values of the wider fields; rest is
\* the bits no accessor names (5..14, 24..31, 84..127).
FieldCombos ==
    [flags : SUBSET IrtEntryFlagsAll,
     vector : {0, 90, 255},
     destination_id : {Zero, {0, 31}},
     source_identifier : {Zero, {0, 15}},
     source_id_qualifier : 0..3,
     source_validation_type : 0..3,
     rest : {Zero, {5, 24, 84, 127}}]

\* A caller evaluates every accessor of entry (as Debug::fmt does).
decode_entry ==
    /\ entry # NoWord
    /\ decoded' = [flags |-> flags(entry),
                   vector |-> vector(entry),
                   destination_id |-> destination_id(entry),
                   source_identifier |-> source_identifier(entry),
                   source_id_qualifier |-> source_id_qualifier(entry),
                   source_validation_type |-> source_validation_type(entry)]
    /\ UNCHANGED << table_vars, pages_in, encoded, vector_in, entry, fields,
                    apic_vars, kernel_vars, cpu_vars, alloc_vars, write_vars, hw, pc, call >>

InitFields ==
    /\ Constructed(new(NUM_PAGES), BasePaddr, new(NUM_PAGES).mode)
    /\ NoHandlers
    /\ KernelIdle
    /\ ApicUnbuilt
    /\ pages_in = NUM_PAGES
    /\ encoded = NoWord
    /\ vector_in = 0
    /\ fields \in FieldCombos
    /\ entry = Layout(fields)
    /\ decoded = NoDecoded

NextFields == decode_entry

SpecFields == InitFields /\ [][NextFields]_vars

\* -------------------------------------------------------------- properties

LowerHalf(e) == e \cap (0..63)
UpperHalf(e) == {b - 64 : b \in e \cap (64..127)}
LowerAt(i) == MemRead(mem, SizeOfU128 * i)
UpperAt(i) == MemRead(mem, SizeOfU128 * i + SizeOfU64)
\* The 128-bit value read back from the table's memory at index i.
ReadBack(i) == LowerAt(i) \cup {b + 64 : b \in UpperAt(i)}
HoldsModification(c) == pc[c] \in {"se_w1", "se_w2", "se_w3", "se_drop"}

\* C1: whenever the present bit of a slot is set in table memory, the slot's
\* upper word is the upper half of the entry whose lower half is stored there;
\* the same holds of every 128-bit entry the hardware has fetched.
C1_PresentNeverWithStaleUpper ==
    /\ \A i \in Indices :
          FlagP \in LowerAt(i) =>
             /\ armed[i] # NoWord
             /\ LowerAt(i) = LowerHalf(armed[i])
             /\ UpperAt(i) = UpperHalf(armed[i])
    /\ FlagP \in hw.lower =>
          /\ hw.of # NoWord
          /\ hw.lower = LowerHalf(hw.of)
          /\ hw.upper = UpperHalf(hw.of)

\* The hardware fetched a present entry with a nonzero upper half while a CPU
\* is between the writes of a set_entry.
C1_Witness ==
    /\ FlagP \in hw.lower
    /\ hw.upper # Zero
    /\ \E c \in CPUS : pc[c] = "se_w3"

\* The writes a set_entry(i, e) has issued after k of its three steps.
ExpectedWrites(i, e, k) ==
    SubSeq(<< [off |-> SizeOfU128 * i, word |-> Zero, locked |-> TRUE],
              [off |-> SizeOfU128 * i + SizeOfU64, word |-> UpperHalf(e), locked |-> TRUE],
              [off |-> SizeOfU128 * i, word |-> LowerHalf(e), locked |-> TRUE] >>, 1, k)

\* C2: a set_entry(index, entry) issues, with the modification lock held,
\* zero to the lower word, then entry's upper half to the upper word, then
\* entry's lower half to the lower word, and nothing else: at each position of
\* the call its writes so far are exactly that prefix, and memory changes only
\* by such a write.
C2_ThreeOrderedWritesUnderLock ==
    /\ [](\A c \in CPUS :
            writes[c] = ExpectedWrites(call[c].index, call[c].entry,
                           CASE pc[c] = "se_w2" -> 1
                             [] pc[c] = "se_w3" -> 2
                             [] pc[c] = "se_drop" -> 3
                             [] OTHER -> 0))
    /\ [][ mem' # mem =>
             \E c \in CPUS :
                /\ Len(writes'[c]) = Len(writes[c]) + 1
                /\ writes'[c] = Append(writes[c], writes'[c][Len(writes'[c])])
                /\ mem' = MemWrite(mem, writes'[c][Len(writes'[c])].off,
                                        writes'[c][Len(writes'[c])].word) ]_vars

\* A set_entry has issued its three writes for an entry with a nonzero upper half.
C2_Witness ==
    \E c \in CPUS :
       /\ pc[c] = "se_drop"
       /\ Len(writes[c]) = 3
       /\ writes[c][2].word # Zero

\* C3: once set_entry(i, e) has returned, and until another set_entry on i
\* starts its writes, the value read back from the table at index i is e.
C3_ReadBackEqualsEntry ==
    \A i \in Indices : settled[i] # NoWord => ReadBack(i) = settled[i]

\* A returned set_entry left an entry with a nonzero upper half in the last
\* slot while another CPU is in the middle of writing a different slot.
C3_Witness ==
    /\ settled[255] # NoWord
    /\ UpperHalf(settled[255]) # Zero
    /\ \E c \in CPUS : pc[c] = "se_w3" /\ call[c].index = 0

\* C4: at most one CPU is between taking the modification lock and the end of
\* its set_entry, whatever the indices.
C4_WritesSerializedPerTable ==
    Cardinality({c \in CPUS : HoldsModification(c)}) <= 1

\* One CPU is between its writes while another, called on a different index,
\* waits.
C4_Witness ==
    \E c, d \in CPUS :
       /\ pc[c] = "se_w2"
       /\ pc[d] = "se_lock"
       /\ call[c].index # call[d].index

\* C5: no two live handles have the same index.
C5_LiveHandlesDistinct ==
    \A i \in DOMAIN held : held[i] <= 1

\* After a release, three handles are live and both CPUs are inside alloc.
C5_Witness ==
    /\ fresh_allocs = -1
    /\ Cardinality({i \in 0..(num_entries - 1) : Live(i) = 1}) >= 3
    /\ \A c \in CPUS : pc[c] # "idle"

\* C6: after num_entries successful allocs and no release, an alloc finds no
\* id, returns None, never waits on that path, and changes neither the ids in
\* use nor table memory.
C6_ExhaustedAllocReturnsNone ==
    /\ [][ \A c \in CPUS :
             (fresh_allocs = num_entries /\ pc[c] = "al_find" /\ pc'[c] # "al_find")
                => (pc'[c] = "al_none" /\ used' = used /\ mem' = mem) ]_vars
    /\ [][ \A c \in CPUS :
             (pc[c] = "al_none" /\ pc'[c] # "al_none")
                => (pc'[c] = "idle" /\ used' = used /\ mem' = mem /\ held' = held) ]_vars
    /\ [](\A c \in CPUS :
             /\ pc[c] = "al_find" => ENABLED id_alloc_find(c)
             /\ pc[c] = "al_none" => ENABLED alloc_return_none(c))

\* The 257th alloc of the one-page table is about to return None.
C6_Witness ==
    \E c \in CPUS :
       /\ pc[c] = "al_none"
       /\ fresh_allocs = num_entries
       /\ num_entries = 256

\* C7: the handle a successful alloc returns has the lowest index that was
\* free when the allocator lock was held; with no release so far, the k-th
\* successful alloc returns index k - 1.
C7_AllocReturnsLowestFree ==
    \A c \in CPUS :
       pc[c] = "al_some" =>
          /\ AsU16(call[c].index) = call[c].lowest
          /\ call[c].kth >= 1 => AsU16(call[c].index) = call[c].kth - 1

\* Index 0 was released and is handed out again while index 1 is still in use.
C7_Witness ==
    \E c \in CPUS :
       /\ pc[c] = "al_some"
       /\ AsU16(call[c].index) = 0
       /\ fresh_allocs = -1
       /\ Live(1) = 1

IsPowerOfTwoCount(n) == \E k \in 0..16 : n = 2 ^ k
SizeField(word) == ValueOf(word \cap (0..3))

\* C8: for a table built with a power-of-two number of entries, encode() does
\* not panic and bits 3:0 of its value hold s with 2^(s+1) = num_entries.
C8_EncodeSizeCode ==
    (tstate # "new_panicked" /\ IsPowerOfTwoCount(num_entries)) =>
        /\ tstate # "encode_panicked"
        /\ encoded # NoWord => 2 ^ (SizeField(encoded) + 1) = num_entries

\* encode() returned for the largest table a u16 count allows, 32768 entries.
C8_Witness ==
    /\ encoded # NoWord
    /\ num_entries = 32768
    /\ SizeField(encoded) = 14

\* C9: encode() returns the base address in bits 63:12, bit 11 set exactly in
\* X2Apic mode, the size code in bits 3:0 and zero in bits 10:4; it changes
\* nothing of the table.
C9_EncodeLayout ==
    /\ [](encoded # NoWord =>
            /\ encoded \cap (12..63) = seg_paddr
            /\ encoded \ (0..11) = seg_paddr
            /\ (11 \in encoded) <=> (extended_interrupt_mode = "X2Apic")
            /\ 2 ^ (SizeField(encoded) + 1) = num_entries
            /\ encoded \cap (4..10) = {})
    /\ [][ encoded' # encoded =>
             UNCHANGED << num_entries, extended_interrupt_mode, seg_paddr,
                          seg_bytes, capacity, mem, modification_lock,
                          allocator_lock, used, held >> ]_vars

\* encode() returned for a table in XApic mode at an address with high bits.
C9_Witness ==
    /\ encoded # NoWord
    /\ extended_interrupt_mode = "XApic"
    /\ 63 \in seg_paddr
    /\ 11 \notin encoded

\* C10: for every v in 0..=255, new_enabled(v) has vector v, the present flag
\* set, destination id 0, source identifier 0 and validation type Disable.
C10_NewEnabledFields ==
    (entry # NoWord /\ vector_in <= 255) =>
        /\ vector(entry) = vector_in
        /\ FlagP \in flags(entry)
        /\ destination_id(entry) = Zero
        /\ source_identifier(entry) = Zero
        /\ source_validation_type(entry) = "Disable"

\* new_enabled(255) was built.
C10_Witness ==
    /\ entry # NoWord
    /\ vector_in = 255
    /\ vector(entry) = 255

\* C11 as stated: for every vector v the only flag of new_enabled(v) is
\* present (P); FPD, DM, RH, TM and IM are clear.
C11_OnlyPresentSet ==
    entry # NoWord => flags(entry) = {FlagP}

\* C11 amended: for every vector v the flags of new_enabled(v) are exactly
\* present (P) and fault-processing-disable (FPD); DM, RH, TM and IM are clear.
C11_PresentAndFpdSet ==
    entry # NoWord =>
        /\ flags(entry) = {FlagP, FlagFPD}
        /\ flags(entry) \cap {FlagDM, FlagRH, FlagTM, FlagIM} = {}

\* new_enabled(255) was built: every vector bit is set next to the flags.
C11_Witness ==
    /\ entry # NoWord
    /\ vector_in = 255
    /\ FlagFPD \in flags(entry)
    /\ Mask(16, 23) \subseteq entry

\* C12: for every combination of field values laid out in a 128-bit value,
\* each accessor returns exactly the value of its own field, whatever the
\* other fields hold.
C12_FieldsRoundTrip ==
    decoded # NoDecoded =>
        /\ decoded.flags = fields.flags
        /\ decoded.vector = fields.vector
        /\ decoded.destination_id = fields.destination_id
        /\ decoded.source_identifier = fields.source_identifier
        /\ decoded.source_id_qualifier =
              SourceIdQualifier_try_from(fields.source_id_qualifier)
        /\ decoded.source_validation_type =
              SourceValidationType_try_from(fields.source_validation_type)

SourceValidationTypes == {"Disable", "RequesterId", "RequesterBus", "Reserved"}
SourceIdQualifiers ==
    {"All", "IgnoreThirdLeast", "IgnoreSecondThirdLeast", "IgnoreLeastThree"}

\* C13: every accessor is total: for every 128-bit value the two tag
\* accessors return one of their four tags, never the failed conversion that
\* unwrap() panics on, and the other accessors return a value of their width.
C13_AccessorsTotal ==
    decoded # NoDecoded =>
        /\ decoded.source_validation_type \in SourceValidationTypes
        /\ decoded.source_id_qualifier \in SourceIdQualifiers
        /\ decoded.flags \subseteq IrtEntryFlagsAll
        /\ decoded.vector \in 0..255
        /\ decoded.destination_id \subseteq 0..31
        /\ decoded.source_identifier \subseteq 0..15

\* The accessors ran on a value with bit 84, next to the validation type, and
\* other unnamed bits set, and with the validation type at its reserved code.
C13_Witness ==
    /\ decoded # NoDecoded
    /\ {5, 24, 84, 127} \subseteq entry
    /\ Mask(82, 83) \subseteq entry
    /\ decoded.source_validation_type = "Reserved"

\* The entry as it is when only the word of set_entry's step 2 (the upper
\* half) or only the word of step 3 (the lower half) has been stored.
OnlyUpper(e) == FromWords(Zero, as_raw_u64(e)[2])
OnlyLower(e) == FromWords(as_raw_u64(e)[1], Zero)

\* C20 as stated: vector(), destination_id(), source_identifier() and
\* source_validation_type() depend only on the word set_entry writes in
\* step 2 (the upper 64 bits); the word of step 3 carries none of them.
C20_FieldsInUpperWord ==
    decoded # NoDecoded =>
        /\ decoded.vector = vector(OnlyUpper(entry))
        /\ decoded.destination_id = destination_id(OnlyUpper(entry))
        /\ decoded.source_identifier = source_identifier(OnlyUpper(entry))
        /\ decoded.source_validation_type =
              source_validation_type(OnlyUpper(entry))
        /\ FlagP \in decoded.flags <=> FlagP \in as_raw_u64(entry)[1]

\* C20 amended: the present bit and the other flags, the vector and the
\* destination id are in the lower 64 bits and depend only on the word of
\* step 3; the source identifier and the source-validation type are in the
\* upper 64 bits and depend only on the word of step 2.
C20_FieldsByWord ==
    decoded # NoDecoded =>
        /\ decoded.flags = flags(OnlyLower(entry))
        /\ decoded.vector = vector(OnlyLower(entry))
        /\ decoded.destination_id = destination_id(OnlyLower(entry))
        /\ decoded.source_identifier = source_identifier(OnlyUpper(entry))
        /\ decoded.source_validation_type =
              source_validation_type(OnlyUpper(entry))
        /\ FlagP \in decoded.flags <=> FlagP \in as_raw_u64(entry)[1]

\* The accessors ran on a present entry with every field nonzero.
C20_Witness ==
    /\ decoded # NoDecoded
    /\ FlagP \in decoded.flags
    /\ decoded.vector = 255
    /\ decoded.destination_id = {0, 31}
    /\ decoded.source_identifier = {0, 15}
    /\ decoded.source_validation_type = "RequesterBus"

\* C19: from the completion of write 1 of a set_entry on slot i until its
\* write 3, slot i's present bit is clear in table memory; and a slot's
\* present bit turns from clear to set only by write 3 of a set_entry on that
\* slot, whose call has by then stored its upper word at the slot's upper half.
C19_RearmedOnlyByWriteThree ==
    /\ [](\A c \in CPUS :
            pc[c] \in {"se_w2", "se_w3"} => FlagP \notin LowerAt(call[c].index))
    /\ [][ \A i \in Indices :
             (FlagP \notin LowerAt(i)
                /\ FlagP \in MemRead(mem', SizeOfU128 * i)) =>
                \E c \in CPUS :
                   /\ pc[c] = "se_w3" /\ pc'[c] = "se_drop"
                   /\ call[c].index = i
                   /\ MemRead(mem', SizeOfU128 * i) = as_raw_u64(call[c].entry)[1]
                   /\ Len(writes[c]) = 2
                   /\ writes[c][2].off = SizeOfU128 * i + SizeOfU64
                   /\ writes[c][2].word = as_raw_u64(call[c].entry)[2]
                   /\ UpperAt(i) = as_raw_u64(call[c].entry)[2] ]_vars

\* A set_entry replacing a present entry stands between its upper write and
\* write 3: the slot it had armed before is not present, the new upper word
\* is in place.
C19_Witness ==
    \E c \in CPUS :
        /\ pc[c] = "se_w3"
        /\ armed[call[c].index] # NoWord
        /\ FlagP \in armed[call[c].index]
        /\ FlagP \in call[c].entry
        /\ FlagP \notin LowerAt(call[c].index)
        /\ UpperAt(call[c].index) = as_raw_u64(call[c].entry)[2]
        /\ UpperAt(call[c].index) # UpperHalf(armed[call[c].index])

\* C14: X2Apic::new returns None exactly when the CPU feature query reports
\* x2APIC unsupported and a controller when it is supported; on either path
\* no model-specific register is read or written, and none is touched while
\* no controller exists.
C14_NewTouchesNoRegister ==
    /\ [](apic = "None" => ~x2apic_supported)
    /\ [](apic = "Some" => x2apic_supported)
    /\ [](apic # "Some" => (msr_log = << >> /\ apic_pc = "idle"))
    /\ [][ apic' # apic =>
             /\ apic' = IF x2apic_supported THEN "Some" ELSE "None"
             /\ msr' = msr
             /\ msr_log' = << >> ]_vars

\* new() returned None on a CPU without the extension.
C14_Witness ==
    /\ apic = "None"
    /\ ~x2apic_supported
    /\ msr_log = << >>

WroteBase(log) ==
    \E k \in 1..Len(log) : log[k].op = "wr" /\ log[k].reg = "IA32_APIC_BASE"

\* C15: an enable() that starts with the registers as the previous enable()
\* left them ends with every register at that same value and has not written
\* the base register.
C15_EnableIdempotent ==
    (apic_pc = "en_ret" /\ apic_call.same) =>
        /\ msr = enabled_msr
        /\ ~WroteBase(msr_log)

\* A second enable() is about to return, having read the base register and
\* written the spurious-interrupt register.
C15_Witness ==
    /\ apic_pc = "en_ret"
    /\ apic_call.same
    /\ Len(msr_log) = 2
    /\ msr_log[1].op = "rd"
    /\ msr_log[2] = [op |-> "wr", reg |-> "IA32_X2APIC_SIVR", val |-> svr]
    /\ X2APIC_ENABLE_BITS \subseteq msr["IA32_APIC_BASE"]

\* C16: the register accesses of a send_ipi are, in order: one write of zero
\* to the ESR, one write of the caller's value, unmodified, to the ICR, and
\* after these only reads; nothing is read before the command is written.
C16_SendIpiOrder ==
    /\ apic_pc \in {"ipi_disable_local", "ipi_wr_esr"} => msr_log = << >>
    /\ apic_pc = "ipi_wr_icr" =>
          msr_log = << [op |-> "wr", reg |-> "IA32_X2APIC_ESR", val |-> Zero] >>
    /\ apic_pc \in {"ipi_rd_icr", "ipi_rd_esr", "ipi_ret"} =>
          /\ Len(msr_log) >= 2
          /\ msr_log[1] = [op |-> "wr", reg |-> "IA32_X2APIC_ESR", val |-> Zero]
          /\ msr_log[2] = [op |-> "wr", reg |-> "IA32_X2APIC_ICR",
                           val |-> apic_call.icr]
          /\ \A k \in 3..Len(msr_log) : msr_log[k].op = "rd"
    /\ apic_pc = "ipi_rd_esr" => Len(msr_log) >= 3

\* The poll loop is in its second iteration; the hardware has set the
\* delivery-status bit that the caller's command did not have.
C16_Witness ==
    /\ apic_pc = "ipi_rd_icr"
    /\ Len(msr_log) >= 4
    /\ DeliveryStatusBit \notin apic_call.icr
    /\ DeliveryStatusBit \in msr_log[3].val
    /\ msr_log[4].reg = "IA32_X2APIC_ESR"

\* C17: send_ipi leaves the poll loop only in an iteration that read the ICR
\* with bit 12 clear or the ESR nonzero, and in the first such iteration:
\* whenever the loop goes on, the iteration before read bit 12 set and the
\* ESR zero, and the ESR is read only after an ICR read with bit 12 set.
C17_ReturnsOnObservedExit ==
    /\ apic_pc = "ipi_ret" =>
          /\ poll.icr # NoWord
          /\ \/ (DeliveryStatusBit \notin poll.icr /\ poll.esr = NoWord)
             \/ (DeliveryStatusBit \in poll.icr /\ poll.esr \notin {NoWord, Zero})
    /\ apic_pc = "ipi_rd_esr" =>
          (poll.icr # NoWord /\ DeliveryStatusBit \in poll.icr /\ poll.esr = NoWord)
    /\ apic_pc = "ipi_rd_icr" =>
          \/ poll = NoPoll
          \/ (DeliveryStatusBit \in poll.icr /\ poll.esr = Zero)

\* send_ipi is about to return after reading bit 12 set and the ESR nonzero.
C17_Witness ==
    /\ apic_pc = "ipi_ret"
    /\ DeliveryStatusBit \in poll.icr
    /\ poll.esr = EsrError

InSendIpi ==
    apic_pc \in {"ipi_disable_local", "ipi_wr_esr", "ipi_wr_icr", "ipi_rd_icr",
                 "ipi_rd_esr", "ipi_ret"}
PendingClear == DeliveryStatusBit \notin msr["IA32_X2APIC_ICR"]
EsrNonzero == msr["IA32_X2APIC_ESR"] # Zero

C21_EnablePostcondition ==
    apic_pc = "en_ret" =>
        /\ Len(msr_log) >= 2
        /\ msr_log[1].op = "rd" /\ msr_log[1].reg = "IA32_APIC_BASE"
        /\ {10, 11} \subseteq msr["IA32_APIC_BASE"]
        /\ msr["IA32_APIC_BASE"] \ {10, 11} = msr_log[1].val \ {10, 11}
        /\ ValueOf(msr["IA32_X2APIC_SIVR"]) = 271
        /\ WroteBase(msr_log) <=> ~({10, 11} \subseteq msr_log[1].val)
        /\ \E k \in 2..Len(msr_log) :
              msr_log[k].op = "wr" /\ msr_log[k].reg = "IA32_X2APIC_SIVR"
        /\ Cardinality({k \in 1..Len(msr_log) : msr_log[k].op = "wr"
                          /\ msr_log[k].reg = "IA32_APIC_BASE"}) <= 1

\* enable() found EXTD set and EN clear, wrote the base register and keeps
\* the bootstrap-processor bit and the base address it read.
C21_Witness ==
    /\ apic_pc = "en_ret"
    /\ Len(msr_log) = 3
    /\ msr_log[1].val = {8, 10, 12, 35}
    /\ msr["IA32_APIC_BASE"] = {8, 10, 11, 12, 35}

\* ------------------------------------------------ alloc and set_entry: frame

\* The contexts that take a step of set_entry, and of alloc.
InSetEntry(c) == pc[c] \in {"se_lock", "se_w1", "se_w2", "se_w3", "se_drop"}
InAlloc(c) == pc[c] \in {"al_lock", "al_find", "al_mark", "al_none", "al_some"}
SetEntrySteps == {c \in Contexts : pc'[c] # pc[c] /\ (InSetEntry(c) \/ pc'[c] = "se_lock")}
AllocSteps == {c \in Contexts : pc'[c] # pc[c] /\ (InAlloc(c) \/ pc'[c] = "al_lock")}

\* The byte offsets whose 64-bit word a step changes.
Changed == {off \in (DOMAIN mem) \cup (DOMAIN mem') : MemRead(mem, off) # MemRead(mem', off)}

\* C24: a step of set_entry(i, e) changes no byte of the table outside the 16
\* bytes of slot i and leaves the allocator and the handles as they were; a
\* step of alloc leaves the table memory as it was and changes the allocator
\* only by marking the index it returns, which no one had.
C24_FrameOfSetEntryAndAlloc ==
    [][/\ \A c \in SetEntrySteps :
             /\ \A off \in Changed :
                   LET i == IF pc[c] = "idle" THEN call'[c].index ELSE call[c].index
                   IN SizeOfU128 * i <= off /\ off + SizeOfU64 <= SizeOfU128 * i + SizeOfU128
             /\ used' = used
             /\ held' = held
       /\ \A c \in AllocSteps :
             /\ mem' = mem
             /\ used' # used => /\ pc'[c] = "al_some"
                                /\ call'[c].index \notin used
                                /\ used' = used \cup {call'[c].index}
             /\ held' # held => /\ pc'[c] = "idle"
                                /\ call[c].index \in used
                                /\ held' = HeldPlus(call[c].index, 1)
       /\ (Changed # {} => SetEntrySteps # {})
       /\ (used' # used => AllocSteps # {})]_vars

\* Both calls have returned: set_entry has written slot 0 and nothing else,
\* alloc has marked the last index of the table.
C24_Witness ==
    /\ \A c \in Contexts : pc[c] = "idle"
    /\ settled[0] \in TableEntries
    /\ DOMAIN mem = {0, SizeOfU64}
    /\ num_entries - 1 \in used
    /\ num_entries - 1 \in DOMAIN held

\* ------------------------------------------------- handles stay in the table

\* C25: every handle alloc returns has an index in 0..entries, the index
\* IdAlloc chose, which the cast to u16 leaves as it is; so each write of a
\* set_entry through a handle lies in the 16 bytes at offset 16 * index, which
\* end inside the NUM_PAGES * PAGE_SIZE bytes of the table, and no write_once
\* fails.
C25_HandleIndexInTable ==
    /\ \A i \in DOMAIN held :
          /\ i \in 0..(num_entries - 1)
          /\ i \in used
          /\ SizeOfU128 * i + SizeOfU128 <= NUM_PAGES * PAGE_SIZE
    /\ \A c \in Contexts :
          /\ pc[c] # "panic"
          /\ pc[c] = "al_some" =>
                /\ call[c].index \in 0..(num_entries - 1)
                /\ AsU16(call[c].index) = call[c].index
          /\ \A k \in DOMAIN writes[c] :
                /\ writes[c][k].off \in {SizeOfU128 * call[c].index,
                                         SizeOfU128 * call[c].index + SizeOfU64}
                /\ writes[c][k].off + SizeOfU64 <= NUM_PAGES * PAGE_SIZE

\* alloc has returned the handle of the last slot and a set_entry through it
\* has stored both halves of its entry there.
C25_Witness ==
    /\ num_entries - 1 \in DOMAIN held
    /\ \E c \in Contexts :
          /\ pc[c] = "se_drop"
          /\ call[c].index = num_entries - 1
          /\ Len(writes[c]) = 3
          /\ writes[c][2].off = NUM_PAGES * PAGE_SIZE - SizeOfU64

\* ------------------------------------------------ alloc and set_entry: locks

\* The contexts holding a lock of the table.
Holders == {c \in Contexts : modification_lock = c \/ allocator_lock = c}

\* C23: no context holds the allocator lock and the modification lock at the
\* same time; local interrupts are disabled on the core of every context that
\* holds or waits for either lock, so no handler is under way on the core of
\* a task inside a call; alloc waits for the allocator lock alone; and under a
\* fair lock every call of alloc and set_entry returns.
C23_DeadlockFree ==
    /\ [](\A c \in Contexts : ~(modification_lock = c /\ allocator_lock = c))
    /\ [](\A c \in Contexts : (c \in Holders \/ pc[c] # "idle") => ~irq_on[CoreOf(c)])
    /\ [](\A h \in Handlers : (handler_of[h] # NoCpu /\ pc[h] # "idle")
                              => pc[handler_of[h]] = "idle")
    /\ [](\A c \in Contexts : (pc[c] = "al_lock" /\ Runs(c) /\ allocator_lock = NoCpu)
                              => ENABLED alloc_lock(c))
    /\ [](\A c \in Contexts : InAlloc(c) => modification_lock # c)
    /\ \A c \in Contexts : (pc[c] # "idle") ~> (pc[c] = "idle")

\* An interrupt handler waits for the modification lock that a context of
\* another core holds, while the task of the handler's core is between calls.
C23_Witness ==
    \E h \in Handlers :
        /\ handler_of[h] # NoCpu
        /\ pc[h] = "se_lock"
        /\ modification_lock \notin {NoCpu, h, handler_of[h]}

\* ------------------------------------------------- send_ipi and interrupts

\* C22: from the ESR clear to the end of the poll loop local interrupts are
\* disabled, so no handler of the core runs there, not even one that calls
\* send_ipi: the command the poll loop reads is the one this call wrote; and
\* the return leaves local interrupts as they were when the guard was made.
C22_SendIpiUninterrupted ==
    /\ [](apic_pc \in Guarded => ~irq_enabled)
    /\ [](irq_ran \cap Guarded = {})
    /\ [](apic_pc \in {"ipi_rd_icr", "ipi_rd_esr", "ipi_ret"} =>
             msr["IA32_X2APIC_ICR"] \ {DeliveryStatusBit}
                 = apic_call.icr \ {DeliveryStatusBit})
    /\ [][apic_pc = "ipi_disable_local" /\ apic_pc' # apic_pc
             => apic_call'.irq_was = irq_enabled]_vars
    /\ [][(apic_pc \in Guarded /\ apic_pc' \in Guarded)
             => (apic_call'.irq_was = apic_call.irq_was)]_vars
    /\ [][apic_pc = "ipi_ret" /\ apic_pc' = "idle"
             => (irq_enabled' = apic_call.irq_was)]_vars

\* A handler that sends an interrupt ran before the guard was made, and the
\* poll loop has ended with interrupts still disabled, to be enabled again.
C22_Witness ==
    /\ apic_pc = "ipi_ret"
    /\ "ipi_disable_local" \in irq_ran
    /\ ~irq_enabled
    /\ apic_call.irq_was
    /\ poll.icr # NoWord

\* ---------------------------------------------------------------- sys_flock

\* const LOCK_SH = 1; const LOCK_EX = 2; const LOCK_NB = 4; const LOCK_UN = 8;
LOCK_SH == 1
LOCK_EX == 2
LOCK_NB == 4
LOCK_UN == 8

\* An i32 is the set of its bit positions, bit 31 the sign.
I32Width == 32

\* FlockOps::from_bits(bits): None if a bit is set that no flag has.
FlockOps_from_bits(bits) ==
    LET all == BitsOf(LOCK_SH) \cup BitsOf(LOCK_EX) \cup BitsOf(LOCK_NB)
                  \cup BitsOf(LOCK_UN)
    IN IF bits \ all = {} THEN bits ELSE NoWord

\* ops.contains(flag)
contains(ops, flag) == BitsOf(flag) \subseteq ops

\* from_i32 without its last test, accepting a value with no lock flag.
FlockOps_from_i32_any(bits) ==
    LET ops == FlockOps_from_bits(bits)
    IN IF ops # NoWord
       THEN IF contains(ops, LOCK_SH)
            THEN IF contains(ops, LOCK_EX) \/ contains(ops, LOCK_UN)
                 THEN "EINVAL" ELSE "Ok"
            ELSE IF contains(ops, LOCK_EX)
                 THEN IF contains(ops, LOCK_UN) THEN "EINVAL" ELSE "Ok"
                 ELSE "Ok"
       ELSE "EINVAL"

\* FlockOps::from_i32(bits): "Ok" (with from_bits(bits)) or "EINVAL".
FlockOps_from_i32(bits) ==
    LET ops == FlockOps_from_bits(bits)
    IN IF ops # NoWord
       THEN IF contains(ops, LOCK_SH)
            THEN IF contains(ops, LOCK_EX) \/ contains(ops, LOCK_UN)
                 THEN "EINVAL" ELSE "Ok"
            ELSE IF contains(ops, LOCK_EX)
                 THEN IF contains(ops, LOCK_UN) THEN "EINVAL" ELSE "Ok"
                 ELSE IF ~contains(ops, LOCK_UN) THEN "EINVAL" ELSE "Ok"
       ELSE "EINVAL"

\* impl From<FlockOps> for FlockType
FlockType_from(ops) ==
    IF contains(ops, LOCK_EX) THEN "ExclusiveLock"
    ELSE IF contains(ops, LOCK_SH) THEN "SharedLock"
    ELSE "panic"

\* let file = get_file_fast!(..); let inode_file = file.as_inode_or_err()?;
sys_flock_file ==
    /\ flock_pc = "file"
    /\ IF flock_args.fd_ok
       THEN flock_pc' = "from_i32" /\ flock_ret' = flock_ret
       ELSE flock_pc' = "returned" /\ flock_ret' = "Err"
    /\ UNCHANGED << flock_args, flock_ops, flock_done, ctrl_vars, apic_vars,
                    table_vars, codec_vars, alloc_vars, write_vars, cpu_vars, hw,
                    pc, call >>

\* let ops: FlockOps = FlockOps::from_i32(ops)?;
sys_flock_from_i32 ==
    /\ flock_pc = "from_i32"
    /\ IF FlockOps_from_i32(flock_args.ops) = "Ok"
       THEN /\ flock_ops' = FlockOps_from_bits(flock_args.ops)
            /\ flock_pc' = "branch"
            /\ flock_ret' = flock_ret
       ELSE /\ flock_ops' = flock_ops
            /\ flock_pc' = "returned"
            /\ flock_ret' = FlockOps_from_i32(flock_args.ops)
    /\ UNCHANGED << flock_args, flock_done, ctrl_vars, apic_vars, table_vars,
                    codec_vars, alloc_vars, write_vars, cpu_vars, hw, pc, call >>

\* if ops.contains(FlockOps::LOCK_UN) { inode_file.unlock_flock(); } else {
\* let is_nonblocking = ..; let type_ = FlockType::from(ops); ..set_flock.. }
sys_flock_branch ==
    /\ flock_pc = "branch"
    /\ IF contains(flock_ops, LOCK_UN)
       THEN /\ flock_done' = [NoFlockDone EXCEPT !.op = "unlock_flock"]
            /\ flock_pc' = "return_ok"
            /\ flock_ret' = flock_ret
       ELSE IF FlockType_from(flock_ops) = "panic"
            THEN /\ flock_pc' = "returned"
                 /\ flock_ret' = "panic"
                 /\ flock_done' = flock_done
            ELSE /\ flock_done' = [op |-> "set_flock",
                                   type |-> FlockType_from(flock_ops),
                                   is_nonblocking |-> contains(flock_ops, LOCK_NB)]
                 /\ flock_pc' = "set_flock"
                 /\ flock_ret' = flock_ret
    /\ UNCHANGED << flock_args, flock_ops, ctrl_vars, apic_vars, table_vars,
                    codec_vars, alloc_vars, write_vars, cpu_vars, hw, pc, call >>

\* What set_flock returns: the lock, an interrupted wait, or an error that
\* sys_flock passes on.
SetFlockResults == {"Ok", "EINTR", "EAGAIN"}

\* .set_flock(flock, is_nonblocking).map_err(EINTR => ERESTARTSYS, _ => err)?
sys_flock_set_flock(res) ==
    /\ flock_pc = "set_flock"
    /\ IF res = "Ok"
       THEN flock_pc' = "return_ok" /\ flock_ret' = flock_ret
       ELSE /\ flock_pc' = "returned"
            /\ flock_ret' = IF res = "EINTR" THEN "ERESTARTSYS" ELSE res
    /\ UNCHANGED << flock_args, flock_ops, flock_done, ctrl_vars, apic_vars,
                    table_vars, codec_vars, alloc_vars, write_vars, cpu_vars, hw,
                    pc, call >>

\* Ok(SyscallReturn::Return(0))
sys_flock_return ==
    /\ flock_pc = "return_ok"
    /\ flock_pc' = "returned"
    /\ flock_ret' = "Return(0)"
    /\ UNCHANGED << flock_args, flock_ops, flock_done, ctrl_vars, apic_vars,
                    table_vars, codec_vars, alloc_vars, write_vars, cpu_vars, hw,
                    pc, call >>

\* The operation values sys_flock is called with: every combination of the
\* four flags, alone and with bits that no flag has (the sign bit among them).
FlockBits ==
    {low \cup high : low \in SUBSET {0, 1, 2, 3},
                     high \in {{}, {4}, {5, 30}, {I32Width - 1}, {4, I32Width - 1}}}

InitFlock ==
    /\ Constructed(new(NUM_PAGES), BasePaddr, new(NUM_PAGES).mode)
    /\ NoHandlers
    /\ CtrlIdle
    /\ ApicUnbuilt
    /\ pages_in = NUM_PAGES
    /\ CodecIdle
    /\ flock_pc = "file"
    /\ flock_args \in [fd_ok : BOOLEAN, ops : FlockBits]
    /\ flock_ops = NoWord
    /\ flock_done = NoFlockDone
    /\ flock_ret = "none"

NextFlock ==
    \/ sys_flock_file
    \/ sys_flock_from_i32
    \/ sys_flock_branch
    \/ \E res \in SetFlockResults : sys_flock_set_flock(res)
    \/ sys_flock_return

SpecFlock == InitFlock /\ [][NextFlock]_vars

\* The flags of an operation value.
LockFlags == {LOCK_SH, LOCK_EX, LOCK_UN}
Valid(bits) ==
    /\ bits \subseteq BitsOf(LOCK_SH + LOCK_EX + LOCK_NB + LOCK_UN)
    /\ Cardinality({f \in LockFlags : BitsOf(f) \subseteq bits}) = 1

\* C26: from_i32 succeeds, with the value's flags, exactly when the value has
\* no bit outside the four flags and has exactly one of LOCK_SH, LOCK_EX and
\* LOCK_UN; otherwise sys_flock returns EINVAL.  So FlockType::from never
\* panics, and sys_flock unlocks exactly when LOCK_UN is there and sets a
\* lock otherwise, never both.
C26_FromI32Validates ==
    /\ flock_ret # "panic"
    /\ \A bits \in FlockBits : (FlockOps_from_i32(bits) = "Ok") <=> Valid(bits)
    /\ \A bits \in FlockBits : FlockOps_from_i32(bits) \in {"Ok", "EINVAL"}
    /\ (flock_args.fd_ok /\ flock_pc \notin {"file", "from_i32"}) =>
          IF Valid(flock_args.ops)
          THEN flock_ops = flock_args.ops /\ flock_ret # "EINVAL"
          ELSE /\ flock_ops = NoWord
               /\ flock_ret = "EINVAL"
               /\ flock_done = NoFlockDone
    /\ (flock_pc \in {"set_flock", "return_ok"} \/ flock_ret = "Return(0)") =>
          /\ flock_done.op = "unlock_flock" <=> 3 \in flock_args.ops
          /\ flock_done.op = "set_flock" <=> 3 \notin flock_args.ops
    /\ flock_done.op = "set_flock" =>
          /\ flock_done.type = "ExclusiveLock" <=> 1 \in flock_args.ops
          /\ flock_done.type = "SharedLock" <=> 0 \in flock_args.ops
          /\ flock_done.is_nonblocking <=> 2 \in flock_args.ops

\* sys_flock(fd, LOCK_UN | LOCK_NB) has unlocked and returned 0.
C26_Witness ==
    /\ flock_ret = "Return(0)"
    /\ flock_args.ops = {2, 3}
    /\ flock_done.op = "unlock_flock"

\* ------------------------------------------------ AuxiliaryData::from_control

\* const MAX_NR_FILES: usize = 253;
MAX_NR_FILES == 253

\* Control messages in one from_control call.
MaxMsgs == 3

\* The numbers of file descriptors in the payload of an SCM_RIGHTS message.
PayloadFiles == {0, 1, 126, 127, 252, 253, 254}

\* FileMessage::read_from: a message of nfiles files, or EINVAL above
\* MAX_NR_FILES.
FileMessage_read_from(nfiles) == IF nfiles > MAX_NR_FILES THEN "EINVAL" ELSE "Ok"

\* The files of message m, n of them; with sock, the first is a
\* UnixStreamSocket.
FilesOf(m, n, sock) ==
    [k \in 1..n |-> [msg |-> m, pos |-> k, unix |-> sock /\ m = 1 /\ k = 1]]

\* The message sequences from_control is given: each message one that
\* read_from returned.
CtrlInputs ==
    LET lens == {n \in PayloadFiles : FileMessage_read_from(n) = "Ok"}
    IN UNION {[1..len -> lens] : len \in 0..MaxMsgs}

\* The loop of from_control testing each message against MAX_NR_FILES alone.
from_control_next_per_message ==
    /\ ctrl_pc = "loop"
    /\ IF ctrl_next > Len(ctrl_msgs)
       THEN /\ ctrl_pc' = "check"
            /\ UNCHANGED << files, ctrl_next, ctrl_ret >>
       ELSE LET msg_files == ctrl_msgs[ctrl_next]
            IN IF Len(msg_files) > MAX_NR_FILES
               THEN /\ ctrl_pc' = "returned"
                    /\ ctrl_ret' = "EINVAL"
                    /\ UNCHANGED << files, ctrl_next >>
               ELSE /\ files' = files \o msg_files
                    /\ ctrl_next' = ctrl_next + 1
                    /\ UNCHANGED << ctrl_pc, ctrl_ret >>
    /\ UNCHANGED << ctrl_msgs, ctrl_privileged, flock_vars, apic_vars, table_vars,
                    codec_vars, alloc_vars, write_vars, cpu_vars, hw, pc, call >>

\* for ctrl_msg in ctrl_msgs.into_iter() {
\*     if msg_files.len() > MAX_NR_FILES - files.len() { EINVAL }
\*     files.append(&mut msg_files); }
\* The usize subtraction panics on underflow where overflow checks are on and
\* wraps to a huge number, greater than any length, where they are off.
from_control_next ==
    /\ ctrl_pc = "loop"
    /\ IF ctrl_next > Len(ctrl_msgs)
       THEN /\ ctrl_pc' = "check"
            /\ UNCHANGED << files, ctrl_next, ctrl_ret >>
       ELSE LET msg_files == ctrl_msgs[ctrl_next]
                left == MAX_NR_FILES - Len(files)
            IN IF left < 0
               THEN \/ /\ ctrl_pc' = "returned"
                       /\ ctrl_ret' = "underflow"
                       /\ UNCHANGED << files, ctrl_next >>
                    \/ /\ files' = files \o msg_files
                       /\ ctrl_next' = ctrl_next + 1
                       /\ UNCHANGED << ctrl_pc, ctrl_ret >>
               ELSE IF Len(msg_files) > left
                    THEN /\ ctrl_pc' = "returned"
                         /\ ctrl_ret' = "EINVAL"
                         /\ UNCHANGED << files, ctrl_next >>
                    ELSE /\ files' = files \o msg_files
                         /\ ctrl_next' = ctrl_next + 1
                         /\ UNCHANGED << ctrl_pc, ctrl_ret >>
    /\ UNCHANGED << ctrl_msgs, ctrl_privileged, flock_vars, apic_vars, table_vars,
                    codec_vars, alloc_vars, write_vars, cpu_vars, hw, pc, call >>

\* if files.iter().any(is::<UnixStreamSocket>) { if !root && !SYS_ADMIN
\* { EPERM } }  Ok(Self { files })
from_control_return ==
    /\ ctrl_pc = "check"
    /\ ctrl_pc' = "returned"
    /\ ctrl_ret' = IF (\E k \in DOMAIN files : files[k].unix) /\ ~ctrl_privileged
                   THEN "EPERM"
                   ELSE "Ok"
    /\ UNCHANGED << ctrl_msgs, ctrl_privileged, ctrl_next, files, flock_vars,
                    apic_vars, table_vars, codec_vars, alloc_vars, write_vars,
                    cpu_vars, hw, pc, call >>

InitCtrl ==
    /\ Constructed(new(NUM_PAGES), BasePaddr, new(NUM_PAGES).mode)
    /\ NoHandlers
    /\ FlockIdle
    /\ ApicUnbuilt
    /\ pages_in = NUM_PAGES
    /\ CodecIdle
    /\ ctrl_pc = "loop"
    /\ \E lens \in CtrlInputs, sock \in BOOLEAN :
          ctrl_msgs = [m \in DOMAIN lens |-> FilesOf(m, lens[m], sock)]
    /\ ctrl_privileged \in BOOLEAN
    /\ ctrl_next = 1
    /\ files = << >>
    /\ ctrl_ret = "none"

NextCtrl ==
    \/ from_control_next
    \/ from_control_return

SpecCtrl == InitCtrl /\ [][NextCtrl]_vars

RECURSIVE Concat(_, _)
\* The files of the first n messages, in message order.
Concat(msgs, n) == IF n = 0 THEN << >> ELSE Concat(msgs, n - 1) \o msgs[n]

\* The first message that would push the total above MAX_NR_FILES (0 if none).
RECURSIVE FirstOver(_, _, _)
FirstOver(msgs, m, total) ==
    IF m > Len(msgs) THEN 0
    ELSE IF total + Len(msgs[m]) > MAX_NR_FILES THEN m
    ELSE FirstOver(msgs, m + 1, total + Len(msgs[m]))

\* C27: while from_control merges the messages the accumulated files never
\* number more than MAX_NR_FILES, so MAX_NR_FILES - files.len() does not
\* underflow; the call fails with EINVAL at the first message that would
\* push the total above MAX_NR_FILES, and only there; on success the result
\* is the files of all messages in message order.
C27_MergeBounded ==
    /\ Len(files) <= MAX_NR_FILES
    /\ ctrl_ret # "underflow"
    /\ ctrl_pc # "idle" => files = Concat(ctrl_msgs, ctrl_next - 1)
    /\ ctrl_ret = "EINVAL" <=>
          /\ ctrl_pc = "returned"
          /\ FirstOver(ctrl_msgs, 1, 0) = ctrl_next
    /\ ctrl_pc \in {"check", "returned"} /\ ctrl_ret # "EINVAL" =>
          FirstOver(ctrl_msgs, 1, 0) = 0
    /\ ctrl_ret = "Ok" => files = Concat(ctrl_msgs, Len(ctrl_msgs))

\* Three messages of 126, 126 and 1 files have been merged into 253 files.
C27_Witness ==
    /\ ctrl_ret = "Ok"
    /\ Len(ctrl_msgs) = MaxMsgs
    /\ Len(files) = MAX_NR_FILES
    /\ files[MAX_NR_FILES].msg = MaxMsgs

=============================================================================
